---- MODULE Spec2Model ----
(***************************************************************************)
(* LocalCaption: the audio-capture-to-dispatcher pipeline and the          *)
(* transcribers it feeds.                                                  *)
(*                                                                         *)
(*   AudioCapture          src/localcaption/audio/capture.py               *)
(*   MicrophoneTrack       src/localcaption/demos/webrtc_demo.py           *)
(*   ASRReceiver           src/localcaption/demos/webrtc_demo.py           *)
(*   StreamingASREngine    src/localcaption/asr/engine.py                  *)
(*   DeepgramStreamingASR  src/localcaption/asr/engine.py                  *)
(*   PerformanceMonitor    src/localcaption/utils/performance.py           *)
(*   LatencyTracker        src/localcaption/utils/performance.py           *)
(*   LocalTTSEngine        src/localcaption/tts/engine.py                  *)
(*   AudioWorker           src/localcaption/ui/main_window.py              *)
(*                                                                         *)
(* AudioCapture is driven by one controller thread (start, stop,           *)
(* set_consumer, set_source_mode), by the audio backend's callback thread  *)
(* (_on_audio), by the soundcard loopback workers (_sc_worker) and by the  *)
(* dispatcher threads (_consumer_loop).  Every start() that gets past its  *)
(* early return opens a new session; the threads a session creates carry   *)
(* the session's number.                                                   *)
(***************************************************************************)
EXTENDS Integers, Sequences, FiniteSets, TLC

\* ------------------------------------------------------------------ bounds
\* start() calls that get past the early return
MaxStarts == 2
\* audio blocks delivered by the backends
MaxFrames == 2
\* audio blocks delivered to the MicrophoneTrack callback
MaxTrackFrames == 52
\* soundcard workers alive at the same time
MaxWorkers == 1
\* the capacity N the queue contract speaks of, for the unbounded queue
CapacityN == 1
\* accept_pcm calls on the local engine
MaxCalls == 3
\* chunks the decoder is ready for within one accept_pcm call
MaxDecodes == 2
\* messages the remote service sends
MaxMsgs == 3
\* close() calls on the remote transcriber
MaxCloses == 2
\* devices sd.query_devices() enumerates
MaxDevices == 2
\* samples in one block given to accept_pcm
MaxSamples == 9
\* PerformanceMonitor(history_size=HistorySize)
HistorySize == 3
\* add_latency_measurement calls
MaxRecords == 4
\* LatencyTracker(window_size=WindowSize)
WindowSize == 2
\* the readings of time.time(), in clock ticks
MaxClock == 2
\* LocalTTSEngine.start() calls that create a worker
MaxTtsStarts == 2
\* LocalTTSEngine.speak() calls
MaxTexts == 2

Sessions == 1..MaxStarts
NoFrame == <<0, 0>>
FrameId(f) == f[1]
FrameSession(f) == f[2]

\* ------------------------------------------------------------------ state
VARIABLES
    running,          \* self._running (threading.Event)
    stream,           \* self._stream: "None", "open" (constructed), "started"
    sc_mic,           \* self._sc_mic is not None
    source_mode,      \* self._source_mode
    consumer,         \* self._consumer is not None
    consumer_thread,  \* self._consumer_thread: 0 is None, else the thread
    queue,            \* self._queue
    blockedPut,       \* the frame a producer is blocked in put() with
    disp,             \* dispatcher threads, by session: pc is "none" (not started or
                      \* ended), "check", "get", "consume" or "caught"
    worker,           \* soundcard workers, by session: "none" (not started or ended),
                      \* "init", "check", "record", "blocked"
    session,          \* sessions opened so far
    nextFrame,        \* capture order: the next block's number
    stopPc,           \* the controller's position inside stop()
    stopped,          \* the latest session for which stop() has returned
    stopFromIdle,     \* the stop() in progress was called in the Idle state
    cleared,          \* the dispatchers that were running when stop() last cleared the
                      \* flag and have not reached their loop test since
    \* MicrophoneTrack
    trackRunning,     \* self._running
    trackStream,      \* self._stream: "started" or "closed"
    trackScheduled,   \* _safe_put calls scheduled on the event loop, oldest first
    trackQueue,       \* self._queue (asyncio.Queue)
    trackNext,        \* capture order: the next block's number
    trackDropped,     \* frames _safe_put has dropped
    \* ASRReceiver
    asrBackend,       \* self._asr: "none", "local" or "deepgram"
    asrCreated,       \* what the construction has created so far
    asrError,         \* the error ASRReceiver() raised to its caller, or "none"
    asrEnv,           \* what ASRReceiver() was called with and found in its environment
    \* StreamingASREngine
    engLastPartial,   \* self._last_partial
    engHyp,           \* the decoder stream's current hypothesis (get_result)
    engUtt,           \* the utterance the decoder stream is in: resets so far, plus one
    engOut,           \* the results accept_pcm has returned, oldest first
    engCalls,         \* accept_pcm calls so far
    engCall,          \* what the latest accept_pcm call met: the number of chunks
                      \* decoded, the loop's partial, the endpoint flag and the text
                      \* fetched at the endpoint
    engScript,        \* how far the calls so far follow HelloScript, -1 once they left it
    \* DeepgramStreamingASR
    dgLastPartial,    \* self._last_partial
    dgQueue,          \* self._result_queue
    dgWs,             \* the connection: "open" or "closed"
    dgListener,       \* the listener thread (run_forever): "running" or "ended"
    dgPc,             \* the caller's position: "idle", "pop" (accept_pcm), "join" (close)
    dgMsgs,           \* messages received so far
    dgReturned,       \* the results accept_pcm has returned, oldest first
    dgSrvUtt,         \* the utterance the service is transcribing
    dgCloses,         \* close() calls so far
    dgCall,           \* how the latest accept_pcm call ended
    \* device resolution of AudioCapture.start()
    device_index,     \* self._device_index: a device's name stands for its index
    devOpened,        \* where the latest start() opened the capture; the explicit device
                      \* it was called with, whether that was enumerated and whether a
                      \* stream on it opens at the first attempt made for it
    devCall,          \* what the latest start() met: the devices enumerated, the host
                      \* API and soundcard found, the source mode, the index
                      \* _find_stereo_mix_device returned and the channel counts the
                      \* ladder tried, in order
    \* PerformanceMonitor
    latency_history,  \* self.latency_history (deque)
    perfRecorded,     \* every latency recorded so far, oldest first
    perfStats,        \* what get_current_stats() returned if it was the latest call
    \* LatencyTracker
    ltClock,          \* the latest reading of time.time()
    start_times,      \* self.start_times (dict): timing id to start time
    measurements,     \* self.measurements (deque)
    ltPending,        \* the ids start_timing has returned and end_timing was not
                      \* called with since
    ltCall,           \* the latest end_timing call: its id, what it returned, whether
                      \* the id was pending and the measurements it found
    \* LocalTTSEngine
    ttsEngine,        \* self._engine: "unbuilt" before __init__, then "ok" or "None"
    ttsOnSpeaking,    \* self._on_speaking is not None
    ttsRunning,       \* self._running (threading.Event)
    ttsWorker,        \* self._worker: 0 is None, else the thread
    ttsQueue,         \* self._queue: the number of texts queued
    ttsThread,        \* the worker threads (_loop), by creation order: pc is "none"
                      \* (not started or ended), "check", "get", "taken", "say" or
                      \* "finally"; gated once on_speaking(True) was called and
                      \* until on_speaking(False) is called
    ttsStarts,        \* workers created so far
    ttsSpoken,        \* speak() calls so far
    ttsStopPc,        \* the caller's position inside stop(): "idle" or "join"
    rsBackend,        \* the engine that was constructed: "none", "sherpa" or "deepgram"
    rsSampleRate,     \* its self._sample_rate (0 before construction)
    rsCall,           \* the front half of the latest accept_pcm call: its arguments,
                      \* whether the resampling code ran and what reached the decoder
    \* DeepgramStreamingASR, lock by lock
    lkOwner,          \* the thread holding self._lock: "none", "listener" or "caller"
    lkPc,             \* where the listener (_on_message) and the caller (accept_pcm)
                      \* are: "idle", "send" (caller, inside self._ws.send), "wait"
                      \* (entering "with self._lock"), "append" or "pop" (inside it),
                      \* "release" (leaving it)
    lkBuf,            \* the number of results in self._result_queue
    lkMsgs,           \* messages received so far
    \* AudioWorker
    is_running,       \* self.is_running
    awRun,            \* the worker thread: "none" (not started), "begin" (started, run()
                      \* not yet entered), "startCapture", "startAsr", "loop",
                      \* "stopCapture", "stopAsr" (the finally clause), "done"
    awStop,           \* the caller of stop(): "idle", "wait" (inside self.wait(3000)),
                      \* "returned"
    awStarted,        \* the parts whose start call returned true
    awAsked,          \* the parts whose stop call has been made
    awCb              \* the callback threads of the two parts: "idle", or "checked"
                      \* (is_running was read as true, the signal not yet emitted)

vars == <<running, stream, sc_mic, source_mode, consumer, consumer_thread, queue,
          blockedPut, disp, worker, session, nextFrame, stopPc, stopped,
          stopFromIdle, cleared,
          trackRunning, trackStream, trackScheduled, trackQueue, trackNext, trackDropped,
          asrBackend, asrCreated, asrError, asrEnv,
          engLastPartial, engHyp, engUtt, engOut, engCalls, engCall, engScript,
          dgLastPartial, dgQueue, dgWs, dgListener, dgPc, dgMsgs, dgReturned,
          dgSrvUtt, dgCloses, dgCall,
          device_index, devOpened, devCall,
          latency_history, perfRecorded, perfStats,
          ltClock, start_times, measurements, ltPending, ltCall,
          ttsEngine, ttsOnSpeaking, ttsRunning, ttsWorker, ttsQueue, ttsThread,
          ttsStarts, ttsSpoken, ttsStopPc,
          rsBackend, rsSampleRate, rsCall,
          lkOwner, lkPc, lkBuf, lkMsgs,
          is_running, awRun, awStop, awStarted, awAsked, awCb>>

captureVars == <<running, stream, sc_mic, source_mode, consumer, consumer_thread, queue,
                 blockedPut, disp, worker, session, nextFrame, stopPc, stopped,
                 stopFromIdle, cleared>>
trackVars == <<trackRunning, trackStream, trackScheduled, trackQueue, trackNext,
               trackDropped>>
rcvVars == <<asrBackend, asrCreated, asrError, asrEnv>>
engVars == <<engLastPartial, engHyp, engUtt, engOut, engCalls, engCall, engScript>>
dgVars == <<dgLastPartial, dgQueue, dgWs, dgListener, dgPc, dgMsgs,
            dgReturned, dgSrvUtt, dgCloses, dgCall>>
asrVars == <<rcvVars, engVars, dgVars>>
devVars == <<device_index, devOpened, devCall>>
perfVars == <<latency_history, perfRecorded, perfStats>>
ltVars == <<ltClock, start_times, measurements, ltPending, ltCall>>
ttsVars == <<ttsEngine, ttsOnSpeaking, ttsRunning, ttsWorker, ttsQueue, ttsThread,
             ttsStarts, ttsSpoken, ttsStopPc>>
rsVars == <<rsBackend, rsSampleRate, rsCall>>
lockVars == <<lkOwner, lkPc, lkBuf, lkMsgs>>
awVars == <<is_running, awRun, awStop, awStarted, awAsked, awCb>>
otherVars == <<perfVars, ltVars, ttsVars, rsVars, lockVars, awVars>>

\* ------------------------------------------------------------- queue.Queue
\* queue.Queue(): maxsize <= 0 means the queue has no capacity
QueueMaxsizeBounded == CapacityN
QueueMaxsize == 0

\* queue.Queue.put(item), blocking: waits while maxsize > 0 and the queue holds maxsize items
PutWouldBlock(q) == QueueMaxsize > 0 /\ Len(q) >= QueueMaxsize

NoThread == [pc |-> "none", frame |-> NoFrame]

\* accept_pcm has not been called: no partial from the loop, no endpoint
NoCall == [decodes |-> 0, partial |-> <<>>, endpoint |-> FALSE, final_text |-> <<>>]

\* ASRReceiver() has not been called
NoEnv == [backend |-> "none", key |-> "unset", sherpa |-> FALSE, files |-> FALSE,
          recognizer |-> FALSE, websocket |-> FALSE]

\* start() has not resolved a device
NotOpened == [path |-> "none", device |-> "None", explicit |-> "None", enumerable |-> FALSE,
              openable |-> FALSE]

\* get_current_stats() was not the latest call
NoStats == [avg_latency |-> <<0, 0>>, max_latency |-> -1]

\* end_timing() was not the latest call; a return value is <<>> for None
NoEnd == [id |-> <<>>, ret |-> <<>>, pending |-> FALSE, before |-> <<>>]

\* accept_pcm() has not been called on the engine
NoFeed == [ndim |-> 0, pcm |-> <<>>, sample_rate |-> 0, resampled |-> FALSE,
           fed |-> <<>>, dropped |-> FALSE]

NotResolved == [devices |-> <<>>, wasapi |-> FALSE, soundcard |-> FALSE,
                mode |-> "none", found |-> 0, tried |-> <<>>]

Alive(t) == disp[t].pc # "none"

Init ==
    /\ running = FALSE
    /\ stream = "None"
    /\ sc_mic = FALSE
    /\ source_mode = "internal"
    /\ consumer = FALSE
    /\ consumer_thread = 0
    /\ queue = <<>>
    /\ blockedPut = NoFrame
    /\ disp = [t \in Sessions |-> NoThread]
    /\ worker = [t \in Sessions |-> "none"]
    /\ session = 0
    /\ nextFrame = 1
    /\ stopPc = "idle"
    /\ stopped = 0
    /\ stopFromIdle = FALSE
    /\ cleared = {}
    /\ trackRunning = TRUE
    /\ trackStream = "started"
    /\ trackScheduled = <<>>
    /\ trackQueue = <<>>
    /\ trackNext = 1
    /\ trackDropped = 0
    /\ asrBackend = "none"
    /\ asrCreated = {}
    /\ asrError = "none"
    /\ asrEnv = NoEnv
    /\ engLastPartial = <<>>
    /\ engHyp = <<>>
    /\ engUtt = 1
    /\ engOut = <<>>
    /\ engCalls = 0
    /\ engCall = NoCall
    /\ engScript = 0
    /\ dgLastPartial = <<>>
    /\ dgQueue = <<>>
    /\ dgWs = "open"
    /\ dgListener = "running"
    /\ dgPc = "idle"
    /\ dgMsgs = 0
    /\ dgReturned = <<>>
    /\ dgSrvUtt = 1
    /\ dgCloses = 0
    /\ dgCall = "none"
    /\ device_index = "None"
    /\ devOpened = NotOpened
    /\ devCall = NotResolved
    /\ latency_history = <<>>
    /\ perfRecorded = <<>>
    /\ perfStats = NoStats
    /\ ltClock = 0
    /\ start_times = <<>>
    /\ measurements = <<>>
    /\ ltPending = {}
    /\ ltCall = NoEnd
    /\ ttsEngine = "unbuilt"
    /\ ttsOnSpeaking = FALSE
    /\ ttsRunning = FALSE
    /\ ttsWorker = 0
    /\ ttsQueue = 0
    /\ ttsThread = [t \in 1..MaxTtsStarts |-> [pc |-> "none", gated |-> FALSE]]
    /\ ttsStarts = 0
    /\ ttsSpoken = 0
    /\ ttsStopPc = "idle"
    /\ rsBackend = "none"
    /\ rsSampleRate = 0
    /\ rsCall = NoFeed
    /\ lkOwner = "none"
    /\ lkPc = [listener |-> "idle", caller |-> "idle"]
    /\ lkBuf = 0
    /\ lkMsgs = 0
    /\ is_running = FALSE
    /\ awRun = "none"
    /\ awStop = "idle"
    /\ awStarted = {}
    /\ awAsked = {}
    /\ awCb = [capture |-> "idle", asr |-> "idle"]

\* ------------------------------------------------------- controller thread
\* Idle: no stream, running flag clear, no dispatcher handle, empty queue
Idle ==
    /\ stream = "None"
    /\ ~running
    /\ consumer_thread = 0
    /\ queue = <<>>

\* is_active(): self._stream is not None and self._running.is_set()
IsActive == stream # "None" /\ running

\* set_consumer(consumer)
SetConsumer ==
    /\ stopPc = "idle"
    /\ ~consumer
    /\ consumer' = TRUE
    /\ UNCHANGED <<trackVars, asrVars, devVars, otherVars>>
    /\ UNCHANGED <<running, stream, sc_mic, source_mode, consumer_thread, queue,
                   blockedPut, disp, worker, session, nextFrame, stopPc, stopped,
                   stopFromIdle, cleared>>

\* set_source_mode(mode): any other mode string is ignored
SetSourceMode ==
    /\ stopPc = "idle"
    /\ \E mode \in {"internal", "microphone", "other"} :
        /\ source_mode' = IF mode \in {"internal", "microphone"} THEN mode ELSE source_mode
        /\ source_mode' # source_mode
    /\ UNCHANGED <<trackVars, asrVars, devVars, otherVars>>
    /\ UNCHANGED <<running, stream, sc_mic, consumer, consumer_thread, queue,
                   blockedPut, disp, worker, session, nextFrame, stopPc, stopped,
                   stopFromIdle, cleared>>

\* threading.Thread(target=self._consumer_loop).start() for session s
Spawned(s) == [disp EXCEPT ![s] = [pc |-> "check", frame |-> NoFrame]]

\* start() gets past "if self._stream is not None: return"
StartEnabled ==
    /\ stopPc = "idle"
    /\ stream = "None"
    /\ session < MaxStarts

\* start(), internal mode, a Stereo-Mix-like input opens and starts
StartStereoMix ==
    /\ StartEnabled
    /\ source_mode = "internal"
    /\ running' = TRUE
    /\ session' = session + 1
    /\ stream' = "started"
    /\ IF consumer /\ consumer_thread = 0
       THEN disp' = Spawned(session') /\ consumer_thread' = session'
       ELSE UNCHANGED <<disp, consumer_thread>>
    /\ UNCHANGED <<trackVars, asrVars, devVars, otherVars>>
    /\ UNCHANGED <<sc_mic, source_mode, consumer, queue, blockedPut, worker, nextFrame,
                   stopPc, stopped, stopFromIdle, cleared>>

\* start(), internal mode, the soundcard loopback is taken: no stream is kept
StartSoundcard ==
    /\ StartEnabled
    /\ source_mode = "internal"
    /\ Cardinality({w \in Sessions : worker[w] # "none"}) < MaxWorkers
    /\ running' = TRUE
    /\ session' = session + 1
    /\ sc_mic' = TRUE
    /\ worker' = [worker EXCEPT ![session'] = "init"]
    /\ IF consumer /\ consumer_thread = 0
       THEN disp' = Spawned(session') /\ consumer_thread' = session'
       ELSE UNCHANGED <<disp, consumer_thread>>
    /\ UNCHANGED <<trackVars, asrVars, devVars, otherVars>>
    /\ UNCHANGED <<stream, source_mode, consumer, queue, blockedPut, nextFrame,
                   stopPc, stopped, stopFromIdle, cleared>>

\* a failed soundcard attempt (internal mode only) leaves self._sc_mic = None
AfterSoundcardAttempt(scRaised) ==
    IF source_mode = "internal" /\ scRaised THEN FALSE ELSE sc_mic

\* start(), the channel ladder or a fallback opens a stream and stream.start() succeeds
StartStream ==
    /\ StartEnabled
    /\ running' = TRUE
    /\ session' = session + 1
    /\ \E scRaised \in BOOLEAN : sc_mic' = AfterSoundcardAttempt(scRaised)
    /\ stream' = "started"
    /\ IF consumer
       THEN disp' = Spawned(session') /\ consumer_thread' = session'
       ELSE UNCHANGED <<disp, consumer_thread>>
    /\ UNCHANGED <<trackVars, asrVars, devVars, otherVars>>
    /\ UNCHANGED <<source_mode, consumer, queue, blockedPut, worker, nextFrame,
                   stopPc, stopped, stopFromIdle, cleared>>

\* start(), a stream is constructed but stream.start() raises
StartStreamStartRaises ==
    /\ StartEnabled
    /\ running' = TRUE
    /\ session' = session + 1
    /\ \E scRaised \in BOOLEAN : sc_mic' = AfterSoundcardAttempt(scRaised)
    /\ stream' = "open"
    /\ UNCHANGED <<trackVars, asrVars, devVars, otherVars>>
    /\ UNCHANGED <<source_mode, consumer, consumer_thread, queue, blockedPut, disp,
                   worker, nextFrame, stopPc, stopped, stopFromIdle, cleared>>

\* start(), every candidate fails and the generic fallback raises
StartOpenFails ==
    /\ StartEnabled
    /\ running' = TRUE
    /\ session' = session + 1
    /\ \E scRaised \in BOOLEAN : sc_mic' = AfterSoundcardAttempt(scRaised)
    /\ UNCHANGED <<trackVars, asrVars, devVars, otherVars>>
    /\ UNCHANGED <<stream, source_mode, consumer, consumer_thread, queue, blockedPut,
                   disp, worker, nextFrame, stopPc, stopped, stopFromIdle, cleared>>

\* start() while a stream is held: returns at once
StartAlreadyOpen ==
    /\ stopPc = "idle"
    /\ stream # "None"
    /\ UNCHANGED <<trackVars, asrVars, devVars, otherVars>>
    /\ UNCHANGED <<running, stream, sc_mic, source_mode, consumer, consumer_thread,
                   queue, blockedPut, disp, worker, session, nextFrame, stopPc, stopped,
                   stopFromIdle, cleared>>

\* stop(): self._running.clear()
StopCall ==
    /\ stopPc = "idle"
    /\ running' = FALSE
    /\ stopPc' = "stream"
    /\ stopFromIdle' = Idle
    /\ cleared' = {t \in Sessions : Alive(t)}
    /\ UNCHANGED <<trackVars, asrVars, devVars, otherVars>>
    /\ UNCHANGED <<stream, sc_mic, source_mode, consumer, consumer_thread, queue,
                   blockedPut, disp, worker, session, nextFrame, stopped>>

\* stop(): "if self._stream is not None" guards the calls on the stream
StreamCallsAlways == TRUE
StreamCalls == stream # "None"

\* stop(): stream.stop(); stream.close() under try/finally, then self._sc_mic = None.
\* An error of stop() or close() leaves stop() after the finally clause.
StopStream ==
    /\ stopPc = "stream"
    /\ stream' = "None"
    /\ \E raises \in BOOLEAN :
        /\ raises => StreamCalls
        /\ IF raises
           THEN /\ stopPc' = "idle"
                /\ stopFromIdle' = FALSE
                /\ UNCHANGED sc_mic
           ELSE /\ stopPc' = "join"
                /\ sc_mic' = FALSE
                /\ UNCHANGED stopFromIdle
    /\ UNCHANGED <<trackVars, asrVars, devVars, otherVars>>
    /\ UNCHANGED <<running, source_mode, consumer, consumer_thread, queue, blockedPut,
                   disp, worker, session, nextFrame, stopped, cleared>>

\* Thread.join(timeout=1.0) returns: the thread has ended, or the timeout has
\* elapsed.  A dispatcher outside the consumer reaches its loop test within one
\* 0.1 s poll, so the 1.0 s timeout elapses only while it is inside the consumer.
JoinReturnsNoTimeout(t) == ~Alive(t)
JoinReturns(t) == ~Alive(t) \/ disp[t].pc = "consume"

\* stop(): join the dispatcher, drop the handle, clear the queue, return
StopJoin ==
    /\ stopPc = "join"
    /\ consumer_thread # 0 => JoinReturns(consumer_thread)
    /\ consumer_thread' = 0
    /\ queue' = <<>>
    /\ stopPc' = "idle"
    /\ stopFromIdle' = FALSE
    /\ stopped' = session
    /\ UNCHANGED <<trackVars, asrVars, devVars, otherVars>>
    /\ UNCHANGED <<running, stream, sc_mic, source_mode, consumer, blockedPut, disp,
                   worker, session, nextFrame, cleared>>

\* ------------------------------------------------------------- producers
\* self._queue.put(frame) by a producer; a put that has to wait parks the frame
Put(q, f) == IF PutWouldBlock(q) THEN q ELSE Append(q, f)
Parked(q, f) == IF PutWouldBlock(q) THEN f ELSE blockedPut

\* a get() frees a slot and wakes the parked put
AfterGet(q) == IF blockedPut # NoFrame THEN Append(Tail(q), blockedPut) ELSE Tail(q)
WorkersAfterGet == [w \in Sessions |-> IF worker[w] = "blocked" THEN "check" ELSE worker[w]]

\* _on_audio(indata, ...): the backend's callback, while the stream is started
OnAudio ==
    /\ stream = "started"
    /\ blockedPut = NoFrame
    /\ nextFrame <= MaxFrames
    /\ \E empty \in BOOLEAN :
        IF empty
        THEN UNCHANGED <<queue, blockedPut, nextFrame>>
        ELSE /\ nextFrame' = nextFrame + 1
             /\ queue' = Put(queue, <<nextFrame, session>>)
             /\ blockedPut' = Parked(queue, <<nextFrame, session>>)
    /\ UNCHANGED <<trackVars, asrVars, devVars, otherVars>>
    /\ UNCHANGED <<running, stream, sc_mic, source_mode, consumer, consumer_thread,
                   disp, worker, session, stopPc, stopped, stopFromIdle, cleared>>

\* _sc_worker: mic = self._sc_mic; if mic is None: return; with mic.recorder(...)
ScWorkerInit(w) ==
    /\ worker[w] = "init"
    /\ \E recorderRaises \in BOOLEAN :
        worker' = [worker EXCEPT ![w] =
                    IF sc_mic /\ ~recorderRaises THEN "check" ELSE "none"]
    /\ UNCHANGED <<trackVars, asrVars, devVars, otherVars>>
    /\ UNCHANGED <<running, stream, sc_mic, source_mode, consumer, consumer_thread,
                   queue, blockedPut, disp, session, nextFrame, stopPc, stopped,
                   stopFromIdle, cleared>>

\* _sc_worker: while self._running.is_set()
ScWorkerCheck(w) ==
    /\ worker[w] = "check"
    /\ worker' = [worker EXCEPT ![w] = IF running THEN "record" ELSE "none"]
    /\ UNCHANGED <<trackVars, asrVars, devVars, otherVars>>
    /\ UNCHANGED <<running, stream, sc_mic, source_mode, consumer, consumer_thread,
                   queue, blockedPut, disp, session, nextFrame, stopPc, stopped,
                   stopFromIdle, cleared>>

\* _sc_worker: data = rec.record(...); None is skipped, an error ends the worker,
\* a block is stamped and put on the queue
ScWorkerRecord(w) ==
    /\ worker[w] = "record"
    /\ blockedPut = NoFrame
    /\ \E outcome \in {"data", "none", "raise"} :
        IF outcome = "data"
        THEN /\ nextFrame <= MaxFrames
             /\ nextFrame' = nextFrame + 1
             /\ queue' = Put(queue, <<nextFrame, w>>)
             /\ blockedPut' = Parked(queue, <<nextFrame, w>>)
             /\ worker' = [worker EXCEPT ![w] =
                            IF PutWouldBlock(queue) THEN "blocked" ELSE "check"]
        ELSE /\ worker' = [worker EXCEPT ![w] =
                            IF outcome = "none" THEN "check" ELSE "none"]
             /\ UNCHANGED <<queue, blockedPut, nextFrame>>
    /\ UNCHANGED <<trackVars, asrVars, devVars, otherVars>>
    /\ UNCHANGED <<running, stream, sc_mic, source_mode, consumer, consumer_thread,
                   disp, session, stopPc, stopped, stopFromIdle, cleared>>

\* ------------------------------------------------------------- dispatcher
\* _consumer_loop: while self._running.is_set()
LoopTest(t) ==
    /\ disp[t].pc \in {"check", "caught"}
    /\ disp' = [disp EXCEPT ![t].pc = IF running THEN "get" ELSE "none"]
    /\ cleared' = cleared \ {t}
    /\ UNCHANGED <<trackVars, asrVars, devVars, otherVars>>
    /\ UNCHANGED <<running, stream, sc_mic, source_mode, consumer, consumer_thread,
                   queue, blockedPut, worker, session, nextFrame, stopPc, stopped,
                   stopFromIdle>>

\* _consumer_loop: self._queue.get(timeout=0.1); queue.Empty goes back to the loop
\* test, a frame is handed to self._consumer
Poll(t) ==
    /\ disp[t].pc = "get"
    /\ IF queue = <<>>
       THEN /\ disp' = [disp EXCEPT ![t].pc = "check"]
            /\ UNCHANGED <<queue, blockedPut, worker>>
       ELSE /\ disp' = [disp EXCEPT ![t] = [pc |-> "consume", frame |-> Head(queue)]]
            /\ queue' = AfterGet(queue)
            /\ blockedPut' = NoFrame
            /\ worker' = WorkersAfterGet
    /\ UNCHANGED <<trackVars, asrVars, devVars, otherVars>>
    /\ UNCHANGED <<running, stream, sc_mic, source_mode, consumer, consumer_thread,
                   session, nextFrame, stopPc, stopped, stopFromIdle, cleared>>

\* _consumer_loop: "except Exception: continue"
AfterConsumerExceptionCrash == "none"
AfterConsumerException == "caught"

\* self._consumer(pcm, sample_rate, timestamp) ends: it returns or it raises
ConsumerEnds(t) ==
    /\ disp[t].pc = "consume"
    /\ \E ok \in BOOLEAN :
        /\ disp' = [disp EXCEPT ![t] =
                     [pc |-> IF ok THEN "check" ELSE AfterConsumerException,
                      frame |-> NoFrame]]
    /\ UNCHANGED <<trackVars, asrVars, devVars, otherVars>>
    /\ UNCHANGED <<running, stream, sc_mic, source_mode, consumer, consumer_thread,
                   queue, blockedPut, worker, session, nextFrame, stopPc, stopped,
                   stopFromIdle, cleared>>

\* ---------------------------------------------------------- specification
Next ==
    \/ SetConsumer
    \/ SetSourceMode
    \/ StartStereoMix
    \/ StartSoundcard
    \/ StartStream
    \/ StartStreamStartRaises
    \/ StartOpenFails
    \/ StartAlreadyOpen
    \/ StopCall
    \/ StopStream
    \/ StopJoin
    \/ OnAudio
    \/ \E w \in Sessions : ScWorkerInit(w)
    \/ \E w \in Sessions : ScWorkerCheck(w)
    \/ \E w \in Sessions : ScWorkerRecord(w)
    \/ \E t \in Sessions : LoopTest(t)
    \/ \E t \in Sessions : Poll(t)
    \/ \E t \in Sessions : ConsumerEnds(t)

Spec == Init /\ [][Next]_vars

\* --------------------------------------------------------- MicrophoneTrack
\* asyncio.Queue(maxsize=50)
TrackMaxsize == 50

\* asyncio.Queue.full()
TrackFull(q) == TrackMaxsize > 0 /\ Len(q) >= TrackMaxsize

\* _safe_put: put_nowait(pcm); asyncio.QueueFull is swallowed and the frame dropped
SafePutDropOldest(q, f) == IF TrackFull(q) THEN Append(Tail(q), f) ELSE Append(q, f)
SafePut(q, f) == IF TrackFull(q) THEN q ELSE Append(q, f)

\* _cb(indata, ...): returns at once when stopped, else copies the block and
\* schedules _safe_put with loop.call_soon_threadsafe
TrackCb ==
    /\ trackStream = "started"
    /\ trackNext <= MaxTrackFrames
    /\ IF trackRunning
       THEN /\ trackScheduled' = Append(trackScheduled, trackNext)
            /\ trackNext' = trackNext + 1
       ELSE UNCHANGED <<trackScheduled, trackNext>>
    /\ UNCHANGED <<trackRunning, trackStream, trackQueue, trackDropped>>
    /\ UNCHANGED <<captureVars, asrVars, devVars, otherVars>>

\* the event loop runs the oldest scheduled _safe_put
TrackSafePut ==
    /\ trackScheduled # <<>>
    /\ trackQueue' = SafePut(trackQueue, Head(trackScheduled))
    /\ trackDropped' = IF TrackFull(trackQueue) THEN trackDropped + 1 ELSE trackDropped
    /\ trackScheduled' = Tail(trackScheduled)
    /\ UNCHANGED <<trackRunning, trackStream, trackNext>>
    /\ UNCHANGED <<captureVars, asrVars, devVars, otherVars>>

\* recv(): pcm = await self._queue.get()
TrackRecv ==
    /\ trackQueue # <<>>
    /\ trackQueue' = Tail(trackQueue)
    /\ UNCHANGED <<trackRunning, trackStream, trackScheduled, trackNext, trackDropped>>
    /\ UNCHANGED <<captureVars, asrVars, devVars, otherVars>>

\* stop(): self._running = False
TrackStopCall ==
    /\ trackRunning
    /\ trackRunning' = FALSE
    /\ UNCHANGED <<trackStream, trackScheduled, trackQueue, trackNext, trackDropped>>
    /\ UNCHANGED <<captureVars, asrVars, devVars, otherVars>>

\* stop(): self._stream.stop(); self._stream.close(), errors swallowed
TrackStopStream ==
    /\ ~trackRunning
    /\ trackStream = "started"
    /\ trackStream' = "closed"
    /\ UNCHANGED <<trackRunning, trackScheduled, trackQueue, trackNext, trackDropped>>
    /\ UNCHANGED <<captureVars, asrVars, devVars, otherVars>>

TrackNext ==
    \/ TrackCb
    \/ TrackSafePut
    \/ TrackRecv
    \/ TrackStopCall
    \/ TrackStopStream

TrackSpec == Init /\ [][TrackNext]_vars

\* Scheduling: the controller finishes a stop() it has begun and every dispatcher
\* keeps running its loop; the consumer callback need not ever return.
LiveSpec ==
    /\ Spec
    /\ WF_vars(StopStream)
    /\ WF_vars(StopJoin)
    /\ \A t \in Sessions : WF_vars(LoopTest(t)) /\ WF_vars(Poll(t))

\* Scheduling with a consumer that returns: LiveSpec, and every consumer call ends
DeliverySpec == LiveSpec /\ \A t \in Sessions : WF_vars(ConsumerEnds(t))

\* -------------------------------------------------------------- ASRReceiver
\* StreamingASREngine.__init__: sherpa-onnx present, the four model files found,
\* a recognizer constructed, then the decoder stream created
StreamingASREngineInitLate(env) ==
    IF ~env.sherpa THEN [error |-> "RuntimeError", created |-> {}]
    ELSE IF ~env.recognizer THEN [error |-> "RuntimeError", created |-> {}]
    ELSE IF ~env.files THEN [error |-> "FileNotFoundError", created |-> {"recognizer", "stream"}]
    ELSE [error |-> "none", created |-> {"recognizer", "stream"}]
StreamingASREngineInit(env) ==
    IF ~env.sherpa THEN [error |-> "RuntimeError", created |-> {}]
    ELSE IF ~env.files THEN [error |-> "FileNotFoundError", created |-> {}]
    ELSE IF ~env.recognizer THEN [error |-> "RuntimeError", created |-> {}]
    ELSE [error |-> "none", created |-> {"recognizer", "stream"}]

\* DeepgramStreamingASR.__init__: import websocket, then the WebSocketApp and the
\* started listener thread; the key is not looked at
DeepgramStreamingASRInit(env) ==
    IF ~env.websocket THEN [error |-> "ImportError", created |-> {}]
    ELSE [error |-> "none", created |-> {"connection", "thread"}]

\* os.environ.get("DEEPGRAM_API_KEY") is truthy
KeySet(env) == env.key = "set"

\* ASRReceiver.__init__: which backend the call constructs
WantsDeepgram(env) == env.backend = "deepgram" \/ (env.backend = "auto" /\ KeySet(env))

\* ASRReceiver.__init__: "if not key: raise RuntimeError" before DeepgramStreamingASR(...)
ReceiverDeepgram(env) ==
    IF ~KeySet(env) THEN [error |-> "RuntimeError", created |-> {}]
    ELSE DeepgramStreamingASRInit(env)

\* what ASRReceiver(backend) can be called with and can find: the environment's
\* key, sherpa-onnx installed, the model files present, a recognizer that can be
\* constructed, websocket-client installed
Envs ==
    [backend : {"auto", "deepgram", "sherpa"}, key : {"unset", "empty", "set"},
     sherpa : BOOLEAN, files : BOOLEAN, recognizer : BOOLEAN, websocket : BOOLEAN]

\* the environments the sessions of EngineSpec and DeepgramSpec run in: everything
\* installed and present, the local backend asked for without a key, the remote
\* one with a key
Installed(env) == env.sherpa /\ env.files /\ env.recognizer /\ env.websocket
LocalEnvs == {env \in Envs : Installed(env) /\ env.backend = "sherpa" /\ env.key = "unset"}
RemoteEnvs == {env \in Envs : Installed(env) /\ env.backend = "deepgram" /\ env.key = "set"}

\* ASRReceiver.__init__(backend) in one of the environments E
ReceiverInitIn(E) ==
    /\ asrEnv = NoEnv
    /\ \E env \in E :
        LET made == IF WantsDeepgram(env) THEN ReceiverDeepgram(env)
                    ELSE StreamingASREngineInit(env)
        IN /\ asrEnv' = env
           /\ asrError' = made.error
           /\ asrCreated' = made.created
           /\ asrBackend' = IF made.error # "none" THEN "none"
                            ELSE IF WantsDeepgram(env) THEN "deepgram" ELSE "local"
    /\ UNCHANGED <<captureVars, trackVars, engVars, dgVars, devVars, otherVars>>

ReceiverInit == ReceiverInitIn(Envs)

ReceiverNext == ReceiverInit

ReceiverSpec == Init /\ [][ReceiverNext]_vars

\* ------------------------------------------------------- StreamingASREngine
\* Text is a sequence of words and whitespace tokens.
Hel == <<"hel">>
Hello == <<"hello">>
HelloWorld == <<"hello", " ", "world">>

\* what the decoder's get_result can hold: whitespace only, a word, several words
Hyps == {<<" ">>, Hel, Hello, HelloWorld}

\* str.strip(): leading and trailing whitespace removed
RECURSIVE LStrip(_)
LStrip(t) == IF t # <<>> /\ Head(t) = " " THEN LStrip(Tail(t)) ELSE t
RECURSIVE RStrip(_)
RStrip(t) == IF t # <<>> /\ t[Len(t)] = " " THEN RStrip(SubSeq(t, 1, Len(t) - 1)) ELSE t
Strip(t) == RStrip(LStrip(t))

\* RecognitionResult(text, latency_ms, is_final); Optional[RecognitionResult] is a
\* sequence of at most one result, None the empty one
RecognitionResult(text, is_final) == [text |-> text, is_final |-> is_final]

\* the chunk sequences a call can decode: one hypothesis per ready chunk
RECURSIVE SeqsUpTo(_, _)
SeqsUpTo(S, n) ==
    IF n = 0 THEN {<<>>}
    ELSE LET shorter == SeqsUpTo(S, n - 1)
         IN shorter \cup {Append(q, x) : q \in {r \in shorter : Len(r) = n - 1}, x \in S}

\* what one call can decode
DecodeRuns == SeqsUpTo(Hyps, MaxDecodes)

\* accept_pcm: "if partial and partial != self._last_partial"
NewPartial(partial, last) == partial # <<>> /\ partial # last

\* accept_pcm: the "while self._recognizer.is_ready" loop over the hypotheses the
\* decoder reports; gives <<self._last_partial, result>>
RECURSIVE DecodeLoop(_, _, _)
DecodeLoop(hyps, last, result) ==
    IF hyps = <<>> THEN <<last, result>>
    ELSE LET partial == Strip(Head(hyps))
         IN IF NewPartial(partial, last)
            THEN DecodeLoop(Tail(hyps), partial, <<RecognitionResult(partial, FALSE)>>)
            ELSE DecodeLoop(Tail(hyps), last, result)

\* accept_pcm: "if self._recognizer.is_endpoint": the final replaces the result and
\* clears self._last_partial when its text is not empty; gives
\* <<self._last_partial, result>>
AtEndpointPartialFirst(loop, final_text) ==
    IF loop[2] # <<>> THEN loop
    ELSE IF final_text # <<>> THEN <<<<>>, <<RecognitionResult(final_text, TRUE)>>>>
    ELSE loop
AtEndpointKeepsPartial(loop, final_text) ==
    IF final_text # <<>> THEN <<loop[1], <<RecognitionResult(final_text, TRUE)>>>>
    ELSE loop
AtEndpoint(loop, final_text) ==
    IF final_text # <<>> THEN <<<<>>, <<RecognitionResult(final_text, TRUE)>>>>
    ELSE loop

\* the decoder of the spec's example: "hel", then "hello", then an endpoint with
\* "hello world", one hypothesis per call
HelloScript ==
    << [hyps |-> <<Hel>>, endpoint |-> FALSE],
       [hyps |-> <<Hello>>, endpoint |-> FALSE],
       [hyps |-> <<HelloWorld>>, endpoint |-> TRUE] >>

ScriptStep(n, hyps, endpoint) ==
    IF n >= 0 /\ n < Len(HelloScript) /\ HelloScript[n + 1] = [hyps |-> hyps, endpoint |-> endpoint]
    THEN n + 1
    ELSE -1

\* the result as the caller receives it, with the utterance it belongs to
Returned(result, utt) == [r \in DOMAIN result |-> [text |-> result[r].text,
                                                   is_final |-> result[r].is_final,
                                                   utt |-> utt]]

\* accept_pcm(pcm_f32, sample_rate, timestamp) of StreamingASREngine
EngAcceptPcm ==
    /\ asrBackend = "local"
    /\ engCalls < MaxCalls
    /\ \E hyps \in DecodeRuns, endpoint \in BOOLEAN :
        LET loop == DecodeLoop(hyps, engLastPartial, <<>>)
            hyp == IF hyps = <<>> THEN engHyp ELSE hyps[Len(hyps)]
            final_text == Strip(hyp)
            end == IF endpoint THEN AtEndpoint(loop, final_text) ELSE loop
        IN /\ engLastPartial' = end[1]
           /\ engHyp' = IF endpoint THEN <<>> ELSE hyp
           /\ engUtt' = IF endpoint THEN engUtt + 1 ELSE engUtt
           /\ engOut' = engOut \o Returned(end[2], engUtt)
           /\ engCall' = [decodes |-> Len(hyps), partial |-> loop[2], endpoint |-> endpoint,
                          final_text |-> IF endpoint THEN final_text ELSE <<>>]
           /\ engScript' = ScriptStep(engScript, hyps, endpoint)
    /\ engCalls' = engCalls + 1
    /\ UNCHANGED <<captureVars, trackVars, rcvVars, dgVars, devVars, otherVars>>


\* ----------------------------------------------------- DeepgramStreamingASR
\* transcripts the service sends
Transcripts == {<<>>, Hel, <<"hello", " ">>}

\* an inbound message: valid is "json.loads succeeds and gives an object"; is_final,
\* type, alternatives (the list is present and not empty) and transcript are its fields
Messages ==
    [valid : BOOLEAN, is_final : BOOLEAN, type : {"Results", "Metadata"},
     alternatives : BOOLEAN, transcript : Transcripts]

\* _on_message: is_final = bool(data.get("is_final") or (data.get("type") ==
\* "Results" and data.get("channel", {}).get("alternatives")))
IsFinal(m) == m.is_final \/ (m.type = "Results" /\ m.alternatives)

\* _on_message: text = (alt0.get("transcript") or "").strip()
MessageText(m) == IF m.alternatives THEN Strip(m.transcript) ELSE <<>>

\* _on_message: the result the message makes the listener append, if any
Appended(m, last) ==
    IF ~m.valid \/ MessageText(m) = <<>> THEN <<>>
    ELSE IF IsFinal(m) THEN <<RecognitionResult(MessageText(m), TRUE)>>
    ELSE IF MessageText(m) # last THEN <<RecognitionResult(MessageText(m), FALSE)>>
    ELSE <<>>

\* _on_message: self._last_partial afterwards
LastPartialAfter(m, last) ==
    IF ~m.valid \/ MessageText(m) = <<>> THEN last
    ELSE IF IsFinal(m) THEN <<>>
    ELSE MessageText(m)

\* the appended result as the buffer holds it, with its number in appending order,
\* the finality flag of its message and the utterance the service was in
Buffered(result, id, m, utt) ==
    [r \in DOMAIN result |-> [text |-> result[r].text, is_final |-> result[r].is_final,
                              id |-> id, flag |-> m.is_final, utt |-> utt]]

\* results appended so far, plus one
NextId == Len(dgReturned) + Len(dgQueue) + 1

\* the listener thread runs _on_message(ws, message)
DgOnMessage ==
    /\ asrBackend = "deepgram"
    /\ dgListener = "running"
    /\ dgMsgs < MaxMsgs
    /\ dgMsgs' = dgMsgs + 1
    /\ \E m \in Messages :
        LET rec == Appended(m, dgLastPartial)
        IN /\ dgQueue' = dgQueue \o Buffered(rec, NextId, m, dgSrvUtt)
           /\ dgLastPartial' = LastPartialAfter(m, dgLastPartial)
           /\ dgSrvUtt' = IF m.valid /\ m.is_final THEN dgSrvUtt + 1 ELSE dgSrvUtt
    /\ UNCHANGED <<dgWs, dgListener, dgPc, dgReturned, dgCloses, dgCall>>
    /\ UNCHANGED <<captureVars, trackVars, rcvVars, engVars, devVars, otherVars>>

\* run_forever returns: the connection was closed or was lost
DgListenerEnds ==
    /\ asrBackend = "deepgram"
    /\ dgListener = "running"
    /\ dgListener' = "ended"
    /\ UNCHANGED <<dgLastPartial, dgQueue, dgWs, dgPc, dgMsgs, dgReturned, dgSrvUtt,
                   dgCloses, dgCall>>
    /\ UNCHANGED <<captureVars, trackVars, rcvVars, engVars, devVars, otherVars>>

\* accept_pcm: "except Exception: return None" around self._ws.send
AfterSendFailurePops == "pop"
AfterSendFailure == "idle"

\* accept_pcm up to the send: a block too short to resample returns None before
\* the send; a failing send returns None; a closed connection cannot send
DgSend ==
    /\ asrBackend = "deepgram"
    /\ dgPc = "idle"
    /\ \E outcome \in {"short", "sendFailed", "sent"} :
        /\ outcome = "sent" => dgWs = "open" /\ dgListener = "running"
        /\ dgCall' = outcome
        /\ dgPc' = CASE outcome = "short" -> "idle"
                     [] outcome = "sendFailed" -> AfterSendFailure
                     [] OTHER -> "pop"
    /\ UNCHANGED <<dgLastPartial, dgQueue, dgWs, dgListener, dgMsgs, dgReturned,
                   dgSrvUtt, dgCloses>>
    /\ UNCHANGED <<captureVars, trackVars, rcvVars, engVars, devVars, otherVars>>

\* accept_pcm: self._result_queue.pop(0)
PopIndexLast(q) == Len(q)
PopIndex(q) == 1

\* list.pop(i)
Without(q, i) == SubSeq(q, 1, i - 1) \o SubSeq(q, i + 1, Len(q))

\* accept_pcm after the send: under the lock, pop one result if there is one
DgPop ==
    /\ dgPc = "pop"
    /\ dgPc' = "idle"
    /\ IF dgQueue # <<>>
       THEN /\ dgReturned' = Append(dgReturned, dgQueue[PopIndex(dgQueue)])
            /\ dgQueue' = Without(dgQueue, PopIndex(dgQueue))
       ELSE UNCHANGED <<dgReturned, dgQueue>>
    /\ UNCHANGED <<dgLastPartial, dgWs, dgListener, dgMsgs, dgSrvUtt, dgCloses, dgCall>>
    /\ UNCHANGED <<captureVars, trackVars, rcvVars, engVars, devVars, otherVars>>

\* close(): self._ws.close(), its errors swallowed
DgCloseCall ==
    /\ asrBackend = "deepgram"
    /\ dgPc = "idle"
    /\ dgCloses < MaxCloses
    /\ dgCloses' = dgCloses + 1
    /\ dgWs' = "closed"
    /\ dgPc' = "join"
    /\ UNCHANGED <<dgLastPartial, dgQueue, dgListener, dgMsgs, dgReturned, dgSrvUtt,
                   dgCall>>
    /\ UNCHANGED <<captureVars, trackVars, rcvVars, engVars, devVars, otherVars>>

\* self._ws_thread.join(timeout=1.0) returns: the listener has ended, or the
\* timeout has elapsed
ListenerJoinReturnsNoTimeout == dgListener = "ended"
ListenerJoinReturns == dgListener = "ended" \/ dgListener = "running"

\* close(): the join in the finally clause, then the return
DgCloseJoin ==
    /\ dgPc = "join"
    /\ ListenerJoinReturns
    /\ dgPc' = "idle"
    /\ UNCHANGED <<dgLastPartial, dgQueue, dgWs, dgListener, dgMsgs, dgReturned,
                   dgSrvUtt, dgCloses, dgCall>>
    /\ UNCHANGED <<captureVars, trackVars, rcvVars, engVars, devVars, otherVars>>

EngineNext ==
    \/ ReceiverInitIn(LocalEnvs)
    \/ EngAcceptPcm

EngineSpec == Init /\ [][EngineNext]_vars

DeepgramNext ==
    \/ ReceiverInitIn(RemoteEnvs)
    \/ DgOnMessage
    \/ DgListenerEnds
    \/ DgSend
    \/ DgPop
    \/ DgCloseCall
    \/ DgCloseJoin

DeepgramSpec == Init /\ [][DeepgramNext]_vars

\* Scheduling: the caller finishes a close() it has begun; the listener thread
\* need not ever end.
DeepgramLiveSpec == DeepgramSpec /\ WF_vars(DgCloseJoin)


\* ------------------------------------- DeepgramStreamingASR: self._lock
\* The same two threads as above, one step per lock operation.  self._lock is the
\* only lock of the class; the caller of accept_pcm (ASRReceiver._run) holds none.

\* the owner of self._lock after "with self._lock:" is left
ReleasedKeeps(owner) == owner
Released(owner) == "none"

\* _on_message up to "with self._lock": a message that yields a result goes on to
\* the lock, any other returns
LkOnMessage ==
    /\ lkPc.listener = "idle"
    /\ lkMsgs < MaxMsgs
    /\ lkMsgs' = lkMsgs + 1
    /\ \E m \in Messages :
        lkPc' = [lkPc EXCEPT !.listener =
                    IF Appended(m, <<>>) # <<>> THEN "wait" ELSE "idle"]
    /\ UNCHANGED <<lkOwner, lkBuf>>
    /\ UNCHANGED <<captureVars, trackVars, asrVars, devVars, perfVars, ltVars, ttsVars,
                   rsVars, awVars>>

\* accept_pcm up to the send: a block too short to resample returns None
LkBeginCall ==
    /\ lkPc.caller = "idle"
    /\ \E short \in BOOLEAN :
        lkPc' = [lkPc EXCEPT !.caller = IF short THEN "idle" ELSE "send"]
    /\ UNCHANGED <<lkOwner, lkBuf, lkMsgs>>
    /\ UNCHANGED <<captureVars, trackVars, asrVars, devVars, perfVars, ltVars, ttsVars,
                   rsVars, awVars>>

\* self._ws.send returns, or raises and accept_pcm returns None
LkSend ==
    /\ lkPc.caller = "send"
    /\ \E sent \in BOOLEAN :
        lkPc' = [lkPc EXCEPT !.caller = IF sent THEN "wait" ELSE "idle"]
    /\ UNCHANGED <<lkOwner, lkBuf, lkMsgs>>
    /\ UNCHANGED <<captureVars, trackVars, asrVars, devVars, perfVars, ltVars, ttsVars,
                   rsVars, awVars>>

\* "with self._lock:" is entered by thread t once the lock is free
LkAcquire(t) ==
    /\ lkPc[t] = "wait"
    /\ lkOwner = "none"
    /\ lkOwner' = t
    /\ lkPc' = [lkPc EXCEPT ![t] = IF t = "listener" THEN "append" ELSE "pop"]
    /\ UNCHANGED <<lkBuf, lkMsgs>>
    /\ UNCHANGED <<captureVars, trackVars, asrVars, devVars, perfVars, ltVars, ttsVars,
                   rsVars, awVars>>

\* self._result_queue.append(rec)
LkAppend ==
    /\ lkPc.listener = "append"
    /\ lkBuf' = lkBuf + 1
    /\ lkPc' = [lkPc EXCEPT !.listener = "release"]
    /\ UNCHANGED <<lkOwner, lkMsgs>>
    /\ UNCHANGED <<captureVars, trackVars, asrVars, devVars, perfVars, ltVars, ttsVars,
                   rsVars, awVars>>

\* "if self._result_queue: return self._result_queue.pop(0)"
LkPop ==
    /\ lkPc.caller = "pop"
    /\ lkBuf' = IF lkBuf > 0 THEN lkBuf - 1 ELSE lkBuf
    /\ lkPc' = [lkPc EXCEPT !.caller = "release"]
    /\ UNCHANGED <<lkOwner, lkMsgs>>
    /\ UNCHANGED <<captureVars, trackVars, asrVars, devVars, perfVars, ltVars, ttsVars,
                   rsVars, awVars>>

\* thread t leaves "with self._lock:"
LkRelease(t) ==
    /\ lkPc[t] = "release"
    /\ lkOwner' = Released(lkOwner)
    /\ lkPc' = [lkPc EXCEPT ![t] = "idle"]
    /\ UNCHANGED <<lkBuf, lkMsgs>>
    /\ UNCHANGED <<captureVars, trackVars, asrVars, devVars, perfVars, ltVars, ttsVars,
                   rsVars, awVars>>

LockNext ==
    \/ LkOnMessage
    \/ LkBeginCall
    \/ LkSend
    \/ LkAppend
    \/ LkPop
    \/ \E t \in {"listener", "caller"} : LkAcquire(t) \/ LkRelease(t)

LockSpec == Init /\ [][LockNext]_vars

\* ------------------------------------------- AudioCapture.start(): the device
\* The devices an index can stand for: the default output (the default speaker)
\* and the default input, both devices of the WASAPI host API, a Stereo-Mix-like
\* input, an output of another host API, and an index that is no longer
\* enumerated.
DeviceIds == {"default_out", "default_in", "stereo_mix", "mme_out", "unplugged"}

\* what start() finds: the WASAPI host API, a Stereo-Mix-like input
\* (_find_stereo_mix_device), a working soundcard loopback, which of its
\* attempts to open a stream succeed, with which channel counts the ladder's
\* device opens, and the channel count start() computes for an enumerated device
DeviceEnvs ==
    [wasapi : BOOLEAN, stereoMix : BOOLEAN, soundcard : BOOLEAN, smOpens : BOOLEAN,
     opensWith : SUBSET {1, 2}, channels : {1, 2}, smRetryOpens : BOOLEAN,
     genericOpens : BOOLEAN]

\* the entries of sd.query_devices(): a name and max_input_channels; on the
\* entry "unreadable" the query by index raises
DeviceEntries ==
    [name : {"Stereo Mix", "Wave Out Mix", "Microphone"}, in_ch : {2}]
        \cup {[name |-> "Stereo Mix", in_ch |-> 0], [name |-> "unreadable", in_ch |-> 0]}

DeviceLists == UNION {[1..n -> DeviceEntries] : n \in 0..MaxDevices}

\* 'stereo mix' in name or 'stereomix' in name or 'wave' in name, on the lowered name
LooksLikeSystemCaptureAnyChannels(d) == d.name \in {"Stereo Mix", "Wave Out Mix"}
LooksLikeSystemCapture(d) == d.in_ch > 0 /\ d.name \in {"Stereo Mix", "Wave Out Mix"}

\* _find_stereo_mix_device(): the first index that looks like a system capture;
\* position i stands for index i - 1, and 0 for None
RECURSIVE FindFrom(_, _)
FindFrom(devices, idx) ==
    IF idx > Len(devices) THEN 0
    ELSE IF devices[idx].name # "unreadable" /\ LooksLikeSystemCapture(devices[idx])
    THEN idx
    ELSE FindFrom(devices, idx + 1)

FindStereoMixDevice(devices) == FindFrom(devices, 1)

\* start(): "for ch in (channels, 2, 1)": a channel count that was tried is
\* skipped, the first that opens ends the loop
RECURSIVE LadderTried(_, _, _)
LadderTried(candidates, tried, opens) ==
    IF candidates = <<>> THEN tried
    ELSE LET ch == Head(candidates)
         IN IF \E i \in DOMAIN tried : tried[i] = ch
            THEN LadderTried(Tail(candidates), tried, opens)
            ELSE IF ch \in opens THEN Append(tried, ch)
            ELSE LadderTried(Tail(candidates), Append(tried, ch), opens)

\* sd.query_devices(device) succeeds
Enumerable(d, env) ==
    /\ d \notin {"None", "unplugged"}
    /\ d \in {"default_out", "default_in"} => env.wasapi
    /\ d = "stereo_mix" => env.stereoMix

\* start(): "if device is None": the device the source mode gives
ModeDevice(mode, env) ==
    IF mode = "microphone"
    THEN IF env.wasapi THEN "default_in" ELSE "None"
    ELSE IF env.wasapi THEN "default_out"
    ELSE IF env.stereoMix THEN "stereo_mix"
    ELSE "None"

\* max_output_channels > 0 and not fewer than the input channels
IsOutput(d) == d \in {"default_out", "mme_out"}

\* start(): the device the channel ladder and the generic fallback open: the
\* explicit one, else the mode's; an output of another host API is replaced by
\* the default WASAPI output
LadderDevice(explicit, mode, env) ==
    LET device == IF explicit = "None" THEN ModeDevice(mode, env) ELSE explicit
    IN IF Enumerable(device, env) /\ IsOutput(device) /\ env.wasapi /\ device = "mme_out"
       THEN "default_out"
       ELSE device

\* a stream on a device that is not enumerated cannot be opened; device None is
\* the backend's default device
CanOpen(d, env) == d = "None" \/ Enumerable(d, env)

\* start(): the order of the attempts.  In internal mode the Stereo-Mix-like input
\* and then the soundcard loopback come before the ladder; _stream stays None on
\* the soundcard path, which records the default speaker.
Resolve(explicit, mode, env) ==
    LET device == LadderDevice(explicit, mode, env)
    IN IF mode = "internal" /\ env.stereoMix /\ env.smOpens
       THEN [path |-> "stereo_mix", device |-> "stereo_mix"]
       ELSE IF mode = "internal" /\ env.soundcard
       THEN [path |-> "soundcard", device |-> "default_out"]
       ELSE IF env.opensWith # {} /\ CanOpen(device, env)
       THEN [path |-> "ladder", device |-> device]
       ELSE IF mode = "internal" /\ env.stereoMix /\ env.smRetryOpens
       THEN [path |-> "stereo_mix_fallback", device |-> "stereo_mix"]
       ELSE IF env.genericOpens /\ CanOpen(device, env)
       THEN [path |-> "generic", device |-> device]
       ELSE [path |-> "failed", device |-> "None"]

\* set_device(device_index)
DevSetDevice ==
    /\ \E d \in DeviceIds \cup {"None"} :
        /\ d # device_index
        /\ device_index' = d
    /\ UNCHANGED <<devOpened, devCall>>
    /\ UNCHANGED <<captureVars, trackVars, asrVars, otherVars>>

\* start() while self._stream is None, in one of the environments envs and with
\* one of the device lists
DevStartIn(envs, lists) ==
    /\ devOpened.path \in {"none", "failed", "soundcard"}
    /\ \E env \in envs : \E devices \in lists :
        LET opened == Resolve(device_index, source_mode, env)
            device == LadderDevice(device_index, source_mode, env)
            found == FindStereoMixDevice(devices)
            channels == IF ~Enumerable(device, env) THEN 2
                        ELSE IF device = "stereo_mix" /\ found # 0
                        THEN devices[found].in_ch
                        ELSE env.channels
            opens == IF CanOpen(device, env) THEN env.opensWith ELSE {}
        IN /\ env.stereoMix = (found # 0)
           /\ devOpened' = [path |-> opened.path, device |-> opened.device,
                            explicit |-> device_index,
                            enumerable |-> Enumerable(device_index, env),
                            openable |-> env.opensWith # {}]
           /\ devCall' = [devices |-> devices, wasapi |-> env.wasapi,
                          soundcard |-> env.soundcard, mode |-> source_mode,
                          found |-> found,
                          tried |-> IF opened.path \in {"stereo_mix", "soundcard"}
                                    THEN <<>>
                                    ELSE LadderTried(<<channels, 2, 1>>, <<>>, opens)]
    /\ UNCHANGED device_index
    /\ UNCHANGED <<captureVars, trackVars, asrVars, otherVars>>

\* stop()
DevStop ==
    /\ devOpened # NotOpened
    /\ devOpened' = NotOpened
    /\ devCall' = NotResolved
    /\ UNCHANGED device_index
    /\ UNCHANGED <<captureVars, trackVars, asrVars, otherVars>>

\* start() with no device enumerated, or with one Stereo Mix input
DevStart ==
    DevStartIn(DeviceEnvs, {<<>>, <<[name |-> "Stereo Mix", in_ch |-> 2]>>})

DeviceNext ==
    \/ DevSetDevice
    \/ SetSourceMode
    \/ DevStart
    \/ DevStop

DeviceSpec == Init /\ [][DeviceNext]_vars

\* start() where neither the WASAPI host API nor the soundcard loopback exists,
\* over every device list; no device is ever set, so the device is the Stereo-Mix
\* entry, whose channels the list gives, or none, and env.channels is not read
LoopbackStart ==
    DevStartIn({env \in DeviceEnvs : ~env.wasapi /\ ~env.soundcard /\ env.channels = 2},
               DeviceLists)

LoopbackNext ==
    \/ SetSourceMode
    \/ LoopbackStart
    \/ DevStop

LoopbackSpec == Init /\ [][LoopbackNext]_vars

\* ------------------------------------------------------ PerformanceMonitor
\* the latencies recorded, in milliseconds
Latencies == {10, 20, 30}

\* collections.deque(maxlen=n).append(x): a full deque discards its leftmost item
DequeAppendGrows(d, x, maxlen) == Append(d, x)
DequeAppend(d, x, maxlen) ==
    IF maxlen = 0 THEN d
    ELSE IF Len(d) >= maxlen THEN Append(Tail(d), x)
    ELSE Append(d, x)

RECURSIVE Sum(_)
Sum(h) == IF h = <<>> THEN 0 ELSE Head(h) + Sum(Tail(h))

RECURSIVE Max(_)
Max(h) == IF Len(h) = 1 THEN h[1]
          ELSE LET m == Max(Tail(h)) IN IF Head(h) >= m THEN Head(h) ELSE m

\* sum(h) / len(h) if h else 0.0, as the fraction <<numerator, denominator>>
AvgNoGuard(h) == <<Sum(h), Len(h)>>
Avg(h) == IF h # <<>> THEN <<Sum(h), Len(h)>> ELSE <<0, 1>>

\* add_latency_measurement(latency_ms)
AddLatencyMeasurement ==
    /\ Len(perfRecorded) < MaxRecords
    /\ \E latency_ms \in Latencies :
        /\ latency_history' = DequeAppend(latency_history, latency_ms, HistorySize)
        /\ perfRecorded' = Append(perfRecorded, latency_ms)
    /\ perfStats' = NoStats
    /\ UNCHANGED <<captureVars, trackVars, asrVars, devVars, ltVars, ttsVars, rsVars,
                   lockVars, awVars>>

\* get_current_stats(): the latency entries of the dictionary it returns
GetCurrentStats ==
    /\ perfStats = NoStats
    /\ perfStats' = [avg_latency |-> Avg(latency_history),
                     max_latency |-> IF latency_history # <<>>
                                     THEN Max(latency_history) ELSE 0]
    /\ UNCHANGED <<latency_history, perfRecorded>>
    /\ UNCHANGED <<captureVars, trackVars, asrVars, devVars, ltVars, ttsVars, rsVars,
                   lockVars, awVars>>

MonitorNext ==
    \/ AddLatencyMeasurement
    \/ GetCurrentStats

MonitorSpec == Init /\ [][MonitorNext]_vars


\* ---------------------------------------------------------- LatencyTracker
\* f"{operation_id}_{time.time()}": the operation and the clock reading
TimingIds == {"asr"} \X (0..MaxClock)

\* del self.start_times[timing_id]
AfterEndKeeps(times, id) == times
AfterEnd(times, id) == [k \in DOMAIN times \ {id} |-> times[k]]

\* start_timing(operation_id): time.time() is read for the id and again for the
\* start time; an id that is already a key gets the new start time
StartTiming ==
    /\ \E tid \in ltClock..MaxClock : \E now \in tid..MaxClock :
        LET timing_id == <<"asr", tid>>
        IN /\ start_times' = [k \in DOMAIN start_times \cup {timing_id} |->
                                 IF k = timing_id THEN now ELSE start_times[k]]
           /\ ltPending' = ltPending \cup {timing_id}
           /\ ltClock' = now
    /\ ltCall' = NoEnd
    /\ UNCHANGED measurements
    /\ UNCHANGED <<captureVars, trackVars, asrVars, devVars, perfVars, ttsVars, rsVars,
                   lockVars, awVars>>

\* end_timing(timing_id)
EndTiming ==
    /\ \E timing_id \in TimingIds : \E now \in ltClock..MaxClock :
        /\ ltPending' = ltPending \ {timing_id}
        /\ IF timing_id \notin DOMAIN start_times
           THEN /\ ltCall' = [id |-> timing_id, ret |-> <<>>,
                              pending |-> timing_id \in ltPending,
                              before |-> measurements]
                /\ UNCHANGED <<ltClock, start_times, measurements>>
           ELSE LET duration == now - start_times[timing_id]
                IN /\ measurements' = DequeAppend(measurements, duration, WindowSize)
                   /\ start_times' = AfterEnd(start_times, timing_id)
                   /\ ltClock' = now
                   /\ ltCall' = [id |-> timing_id, ret |-> <<duration>>,
                                 pending |-> timing_id \in ltPending,
                                 before |-> measurements]
    /\ UNCHANGED <<captureVars, trackVars, asrVars, devVars, perfVars, ttsVars, rsVars,
                   lockVars, awVars>>

TrackerNext ==
    \/ StartTiming
    \/ EndTiming

TrackerSpec == Init /\ [][TrackerNext]_vars

\* ---------------------------------------------------------- LocalTTSEngine
\* LocalTTSEngine(on_speaking=...): _init_engine leaves None when pyttsx3 cannot
\* be imported or initialised
TtsInit ==
    /\ ttsEngine = "unbuilt"
    /\ \E ok \in BOOLEAN : ttsEngine' = IF ok THEN "ok" ELSE "None"
    /\ \E callback \in BOOLEAN : ttsOnSpeaking' = callback
    /\ UNCHANGED <<ttsRunning, ttsWorker, ttsQueue, ttsThread, ttsStarts, ttsSpoken,
                   ttsStopPc>>
    /\ UNCHANGED <<captureVars, trackVars, asrVars, devVars, perfVars, ltVars, rsVars,
                   lockVars, awVars>>

\* start(): nothing without an engine or while a worker handle is held
TtsStart ==
    /\ ttsEngine \in {"ok", "None"}
    /\ ttsStopPc = "idle"
    /\ IF ttsEngine = "None" \/ ttsWorker # 0
       THEN UNCHANGED <<ttsRunning, ttsWorker, ttsThread, ttsStarts>>
       ELSE /\ ttsStarts < MaxTtsStarts
            /\ ttsStarts' = ttsStarts + 1
            /\ ttsRunning' = TRUE
            /\ ttsWorker' = ttsStarts'
            /\ ttsThread' = [ttsThread EXCEPT ![ttsStarts'] =
                                [pc |-> "check", gated |-> FALSE]]
    /\ UNCHANGED <<ttsEngine, ttsOnSpeaking, ttsQueue, ttsSpoken, ttsStopPc>>
    /\ UNCHANGED <<captureVars, trackVars, asrVars, devVars, perfVars, ltVars, rsVars,
                   lockVars, awVars>>

\* speak(text, flush): nothing without an engine; flush clears the queue first
TtsSpeak ==
    /\ ttsEngine \in {"ok", "None"}
    /\ ttsStopPc = "idle"
    /\ ttsSpoken < MaxTexts
    /\ ttsSpoken' = ttsSpoken + 1
    /\ \E flush \in BOOLEAN :
        ttsQueue' = IF ttsEngine = "None" THEN ttsQueue
                    ELSE IF flush THEN 1 ELSE ttsQueue + 1
    /\ UNCHANGED <<ttsEngine, ttsOnSpeaking, ttsRunning, ttsWorker, ttsThread, ttsStarts,
                   ttsStopPc>>
    /\ UNCHANGED <<captureVars, trackVars, asrVars, devVars, perfVars, ltVars, rsVars,
                   lockVars, awVars>>

\* stop(): self._running.clear(); self._engine.stop(), whose error is swallowed
TtsStopCall ==
    /\ ttsEngine \in {"ok", "None"}
    /\ ttsStopPc = "idle"
    /\ ttsRunning' = FALSE
    /\ ttsStopPc' = "join"
    /\ UNCHANGED <<ttsEngine, ttsOnSpeaking, ttsWorker, ttsQueue, ttsThread, ttsStarts,
                   ttsSpoken>>
    /\ UNCHANGED <<captureVars, trackVars, asrVars, devVars, perfVars, ltVars, rsVars,
                   lockVars, awVars>>

\* Thread.join(timeout=1.0) returns: the worker has ended, or the timeout has
\* elapsed.  A worker outside say()/runAndWait() reaches its loop test within one
\* 0.1 s poll, so the timeout elapses only while it is speaking.
TtsJoinReturns(t) == ttsThread[t].pc \in {"none", "say"}

\* stop(): join the worker, drop the handle, clear the queue
TtsStopJoin ==
    /\ ttsStopPc = "join"
    /\ ttsWorker # 0 => TtsJoinReturns(ttsWorker)
    /\ ttsWorker' = 0
    /\ ttsQueue' = 0
    /\ ttsStopPc' = "idle"
    /\ UNCHANGED <<ttsEngine, ttsOnSpeaking, ttsRunning, ttsThread, ttsStarts, ttsSpoken>>
    /\ UNCHANGED <<captureVars, trackVars, asrVars, devVars, perfVars, ltVars, rsVars,
                   lockVars, awVars>>

\* _loop: while self._running.is_set()
TtsLoopTest(t) ==
    /\ ttsThread[t].pc = "check"
    /\ ttsThread' = [ttsThread EXCEPT ![t].pc = IF ttsRunning THEN "get" ELSE "none"]
    /\ UNCHANGED <<ttsEngine, ttsOnSpeaking, ttsRunning, ttsWorker, ttsQueue, ttsStarts,
                   ttsSpoken, ttsStopPc>>
    /\ UNCHANGED <<captureVars, trackVars, asrVars, devVars, perfVars, ltVars, rsVars,
                   lockVars, awVars>>

\* _loop: self._queue.get(timeout=0.1); queue.Empty goes back to the loop test
TtsGet(t) ==
    /\ ttsThread[t].pc = "get"
    /\ IF ttsQueue = 0
       THEN /\ ttsThread' = [ttsThread EXCEPT ![t].pc = "check"]
            /\ UNCHANGED ttsQueue
       ELSE /\ ttsThread' = [ttsThread EXCEPT ![t].pc = "taken"]
            /\ ttsQueue' = ttsQueue - 1
    /\ UNCHANGED <<ttsEngine, ttsOnSpeaking, ttsRunning, ttsWorker, ttsStarts, ttsSpoken,
                   ttsStopPc>>
    /\ UNCHANGED <<captureVars, trackVars, asrVars, devVars, perfVars, ltVars, rsVars,
                   lockVars, awVars>>

\* _loop, try: self._on_speaking(True) if there is a callback; an error it raises
\* is swallowed and leads to the finally clause
TtsNotifySpeaking(t) ==
    /\ ttsThread[t].pc = "taken"
    /\ \E raises \in BOOLEAN :
        /\ raises => ttsOnSpeaking
        /\ ttsThread' = [ttsThread EXCEPT ![t] =
                            [pc |-> IF raises THEN "finally" ELSE "say",
                             gated |-> ttsOnSpeaking]]
    /\ UNCHANGED <<ttsEngine, ttsOnSpeaking, ttsRunning, ttsWorker, ttsQueue, ttsStarts,
                   ttsSpoken, ttsStopPc>>
    /\ UNCHANGED <<captureVars, trackVars, asrVars, devVars, perfVars, ltVars, rsVars,
                   lockVars, awVars>>

\* _loop, try: self._engine.say(text); self._engine.runAndWait() return or raise;
\* "except Exception: pass"
TtsSay(t) ==
    /\ ttsThread[t].pc = "say"
    /\ ttsThread' = [ttsThread EXCEPT ![t].pc = "finally"]
    /\ UNCHANGED <<ttsEngine, ttsOnSpeaking, ttsRunning, ttsWorker, ttsQueue, ttsStarts,
                   ttsSpoken, ttsStopPc>>
    /\ UNCHANGED <<captureVars, trackVars, asrVars, devVars, perfVars, ltVars, rsVars,
                   lockVars, awVars>>

\* _loop, finally: self._on_speaking(False) if there is a callback; an error it
\* raises ends the worker thread
TtsFinally(t) ==
    /\ ttsThread[t].pc = "finally"
    /\ \E raises \in BOOLEAN :
        /\ raises => ttsOnSpeaking
        /\ ttsThread' = [ttsThread EXCEPT ![t] =
                            [pc |-> IF raises THEN "none" ELSE "check",
                             gated |-> FALSE]]
    /\ UNCHANGED <<ttsEngine, ttsOnSpeaking, ttsRunning, ttsWorker, ttsQueue, ttsStarts,
                   ttsSpoken, ttsStopPc>>
    /\ UNCHANGED <<captureVars, trackVars, asrVars, devVars, perfVars, ltVars, rsVars,
                   lockVars, awVars>>

TtsNext ==
    \/ TtsInit
    \/ TtsStart
    \/ TtsSpeak
    \/ TtsStopCall
    \/ TtsStopJoin
    \/ \E t \in 1..MaxTtsStarts :
        \/ TtsLoopTest(t)
        \/ TtsGet(t)
        \/ TtsNotifySpeaking(t)
        \/ TtsSay(t)
        \/ TtsFinally(t)

TtsSpec == Init /\ [][TtsNext]_vars

\* ------------------------------------------------------------ resampling
\* Python floats are IEEE-754 doubles: 53 significant bits, round to nearest, ties
\* to even.  A positive double is its significant bits, most significant first,
\* and the exponent top of the first of them; 0.0 has no bits.
MantissaBits == 53

\* four binary digits of q, 0 <= q < 16, and back
Bits4(q) == <<(q \div 8) % 2, (q \div 4) % 2, (q \div 2) % 2, q % 2>>

Limb(b) == 8 * b[1] + 4 * b[2] + 2 * b[3] + b[4]

\* the next 4 * n binary digits of r / den (0 <= r < den) after bits
RECURSIVE Expand(_, _, _, _)
Expand(bits, r, den, n) ==
    IF n = 0 THEN [bits |-> bits, rest |-> r]
    ELSE Expand(bits \o Bits4((16 * r) \div den), (16 * r) % den, den, n - 1)

\* the bit string plus one unit in its last place
Incremented(b) ==
    IF \A i \in 1..Len(b) : b[i] = 1
    THEN <<1>> \o [i \in 1..Len(b) |-> 0]
    ELSE LET last == CHOOSE i \in 1..Len(b) :
                         b[i] = 0 /\ \A j \in (i + 1)..Len(b) : b[j] = 1
         IN [i \in 1..Len(b) |-> IF i < last THEN b[i] ELSE IF i = last THEN 1 ELSE 0]

\* the double nearest to a value whose leading bits are given: the first
\* MantissaBits of them, plus one unit in the last place if roundUp
RoundToDouble(bits, top, roundUp) ==
    LET kept == SubSeq(bits, 1, MantissaBits)
        inc == IF roundUp THEN Incremented(kept) ELSE kept
    IN IF Len(inc) > MantissaBits
       THEN [bits |-> SubSeq(inc, 1, MantissaBits), top |-> top + 1]
       ELSE [bits |-> inc, top |-> top]

\* a / b = (num / den) * 2^top with 1 <= num / den < 2
RECURSIVE Normalised(_, _, _)
Normalised(a, b, top) ==
    IF a >= 2 * b THEN Normalised(a, 2 * b, top + 1)
    ELSE IF a < b THEN Normalised(2 * a, b, top - 1)
    ELSE [num |-> a, den |-> b, top |-> top]

\* num / float(den) for integers num >= 0 and den > 0
FloatDiv(num, den) ==
    IF num = 0 THEN [bits |-> <<>>, top |-> 0]
    ELSE LET v == Normalised(num, den, 0)
             e == Expand(<<1>>, v.num - v.den, v.den, (MantissaBits - 1) \div 4)
         IN RoundToDouble(e.bits, v.top,
                          \/ 2 * e.rest > v.den
                          \/ 2 * e.rest = v.den /\ e.bits[MantissaBits] = 1)

\* the bits of (the integer with bits b) * k + carry, four bits at a time
RECURSIVE Times(_, _, _)
Times(b, k, carry) ==
    IF b = <<>>
    THEN IF carry = 0 THEN <<>>
         ELSE Times(<<>>, k, carry \div 16) \o Bits4(carry % 16)
    ELSE Times(SubSeq(b, 1, Len(b) - 4), k,
               (Limb(SubSeq(b, Len(b) - 3, Len(b))) * k + carry) \div 16)
            \o Bits4((Limb(SubSeq(b, Len(b) - 3, Len(b))) * k + carry) % 16)

\* the bit string from its first 1 on
Stripped(b) ==
    LET first == CHOOSE i \in 1..Len(b) : b[i] = 1 /\ \A j \in 1..(i - 1) : b[j] = 0
    IN SubSeq(b, first, Len(b))

\* x * k for a double x and an integer k > 0 (float(k) is exact)
FloatMul(x, k) ==
    IF x.bits = <<>> THEN x
    ELSE LET p == Stripped(Times(<<0, 0, 0>> \o x.bits, k, 0))
             len == Len(p)
         IN RoundToDouble(p, x.top + (len - MantissaBits),
                          /\ len > MantissaBits
                          /\ p[MantissaBits + 1] = 1
                          /\ \/ p[MantissaBits] = 1
                             \/ \E i \in (MantissaBits + 2)..len : p[i] = 1)

\* the integer with bits b
RECURSIVE Value(_)
Value(b) == IF b = <<>> THEN 0 ELSE 2 * Value(SubSeq(b, 1, Len(b) - 1)) + b[Len(b)]

\* int(x) for a double 0 <= x < 2^31
FloatToInt(x) ==
    IF x.bits = <<>> \/ x.top < 0 THEN 0 ELSE Value(SubSeq(x.bits, 1, x.top + 1))

\* duration = pcm.shape[0] / float(src_sr); dst_len = int(duration * dst_sr)
DstLenExact(n, src_sr, dst_sr) == (n * dst_sr) \div src_sr
DstLen(n, src_sr, dst_sr) == FloatToInt(FloatMul(FloatDiv(n, src_sr), dst_sr))

\* sample rates of the capture devices and of the backends
Rates == {8000, 16000, 48000}

\* a chunk of n frames: mono samples are fractions <<numerator, denominator>>,
\* stereo frames are <<left, right>>
Frames(ndim, n) == [i \in 1..n |-> IF ndim = 2 THEN <<i % 3, 2>> ELSE <<i % 3, 1>>]

\* np.mean(pcm_f32, axis=1) for a two-dimensional chunk
Mixdown(ndim, data) ==
    IF ndim = 2 THEN [i \in 1..Len(data) |-> <<data[i][1] + data[i][2], 2>>] ELSE data

\* np.interp(x_new, x_old, pcm) for x_old = linspace(0, duration, Len(pcm)) and
\* x_new = linspace(0, duration, m), both without the endpoint: new sample i lies
\* (i - 1) * Len(pcm) / m old samples after the first one; past the last old sample
\* np.interp gives the last value.  Values are exact fractions.
Interp(pcm, m) ==
    [i \in 1..m |->
        LET pos == (i - 1) * Len(pcm)
            j == pos \div m
            f == pos % m
        IN IF f = 0 \/ j + 2 > Len(pcm) THEN pcm[j + 1]
           ELSE <<pcm[j + 1][1] * m + f * (pcm[j + 2][1] - pcm[j + 1][1]),
                  pcm[j + 1][2] * m>>]

\* StreamingASREngine._resample_linear(pcm, src_sr, dst_sr)
ResampleLinear(pcm, src_sr, dst_sr) ==
    IF src_sr = dst_sr THEN pcm
    ELSE IF DstLen(Len(pcm), src_sr, dst_sr) <= 1 THEN <<>>
    ELSE Interp(pcm, DstLen(Len(pcm), src_sr, dst_sr))

\* if sample_rate != self._sample_rate
NeedsResampleAlways(sample_rate, backend_rate) == sample_rate \in Rates
NeedsResample(sample_rate, backend_rate) == sample_rate # backend_rate

\* StreamingASREngine(..., sample_rate) or DeepgramStreamingASR(..., sample_rate)
EngineNew ==
    /\ \E kind \in {"sherpa", "deepgram"}, rate \in Rates :
        /\ rsBackend' = kind
        /\ rsSampleRate' = rate
    /\ rsCall' = NoFeed
    /\ UNCHANGED <<captureVars, trackVars, asrVars, devVars, perfVars, ltVars, ttsVars,
                   lockVars, awVars>>

\* StreamingASREngine.accept_pcm up to accept_waveform
AcceptPcmFeed ==
    /\ rsBackend = "sherpa"
    /\ \E ndim \in {1, 2}, n \in 0..MaxSamples, sample_rate \in Rates :
        LET pcm == Mixdown(ndim, Frames(ndim, n))
        IN rsCall' = [ndim |-> ndim, pcm |-> pcm, sample_rate |-> sample_rate,
                      resampled |-> NeedsResample(sample_rate, rsSampleRate),
                      fed |-> IF NeedsResample(sample_rate, rsSampleRate)
                              THEN ResampleLinear(pcm, sample_rate, rsSampleRate)
                              ELSE pcm,
                      dropped |-> FALSE]
    /\ UNCHANGED <<rsBackend, rsSampleRate>>
    /\ UNCHANGED <<captureVars, trackVars, asrVars, devVars, perfVars, ltVars, ttsVars,
                   lockVars, awVars>>

\* DeepgramStreamingASR.accept_pcm up to the conversion to 16-bit PCM: the call
\* returns None, sending nothing, when the resampled chunk would have at most 1 sample
DgAcceptPcmFeed ==
    /\ rsBackend = "deepgram"
    /\ \E ndim \in {1, 2}, n \in 0..MaxSamples, sample_rate \in Rates :
        LET pcm == Mixdown(ndim, Frames(ndim, n))
            resample == NeedsResample(sample_rate, rsSampleRate)
            short == resample /\ DstLen(Len(pcm), sample_rate, rsSampleRate) <= 1
        IN rsCall' = [ndim |-> ndim, pcm |-> pcm, sample_rate |-> sample_rate,
                      resampled |-> resample,
                      fed |-> IF short THEN <<>>
                              ELSE IF resample
                              THEN Interp(pcm, DstLen(Len(pcm), sample_rate, rsSampleRate))
                              ELSE pcm,
                      dropped |-> short]
    /\ UNCHANGED <<rsBackend, rsSampleRate>>
    /\ UNCHANGED <<captureVars, trackVars, asrVars, devVars, perfVars, ltVars, ttsVars,
                   lockVars, awVars>>

ResampleNext == EngineNew \/ AcceptPcmFeed \/ DgAcceptPcmFeed

ResampleSpec == Init /\ [][ResampleNext]_vars

\* ------------------------------------------------------------- AudioWorker
\* AudioWorker(QThread): run() is the worker thread, stop() is called by the GUI
\* thread (MainWindow.stop_captions), audio_callback and asr_callback by the
\* threads of the capture and of the recognition.  start_capture, start_recognition,
\* stop_capture and stop_recognition are calls into the two parts: each returns
\* or raises.
Parts == {"capture", "asr"}

\* MainWindow.start_captions: self.audio_worker.start()
AwStart ==
    /\ awRun = "none"
    /\ awRun' = "begin"
    /\ UNCHANGED <<is_running, awStop, awStarted, awAsked, awCb>>
    /\ UNCHANGED <<captureVars, trackVars, asrVars, devVars, perfVars, ltVars, ttsVars,
                   rsVars, lockVars>>

\* run(): self.is_running = True
AwRunBegin ==
    /\ awRun = "begin"
    /\ is_running' = TRUE
    /\ awRun' = "startCapture"
    /\ UNCHANGED <<awStop, awStarted, awAsked, awCb>>
    /\ UNCHANGED <<captureVars, trackVars, asrVars, devVars, perfVars, ltVars, ttsVars,
                   rsVars, lockVars>>

\* run(): "if not self.audio_capture.start_capture(callback=audio_callback): return";
\* the return and an exception both lead to the finally clause
AwStartCapture ==
    /\ awRun = "startCapture"
    /\ \E outcome \in {"true", "false", "raise"} :
        /\ awRun' = IF outcome = "true" THEN "startAsr" ELSE "stopCapture"
        /\ awStarted' = IF outcome = "true" THEN awStarted \cup {"capture"} ELSE awStarted
    /\ UNCHANGED <<is_running, awStop, awAsked, awCb>>
    /\ UNCHANGED <<captureVars, trackVars, asrVars, devVars, perfVars, ltVars, ttsVars,
                   rsVars, lockVars>>

\* run(): "if not self.asr_engine.start_recognition(callback=asr_callback): return"
AwStartAsr ==
    /\ awRun = "startAsr"
    /\ \E outcome \in {"true", "false", "raise"} :
        /\ awRun' = IF outcome = "true" THEN "loop" ELSE "stopCapture"
        /\ awStarted' = IF outcome = "true" THEN awStarted \cup {"asr"} ELSE awStarted
    /\ UNCHANGED <<is_running, awStop, awAsked, awCb>>
    /\ UNCHANGED <<captureVars, trackVars, asrVars, devVars, perfVars, ltVars, ttsVars,
                   rsVars, lockVars>>

\* run(): "while self.is_running: self.msleep(10)" finds the flag clear
AwLoop ==
    /\ awRun = "loop"
    /\ ~is_running
    /\ awRun' = "stopCapture"
    /\ UNCHANGED <<is_running, awStop, awStarted, awAsked, awCb>>
    /\ UNCHANGED <<captureVars, trackVars, asrVars, devVars, perfVars, ltVars, ttsVars,
                   rsVars, lockVars>>

\* run(), finally: where the cleanup goes after self.audio_capture.stop_capture();
\* an exception of it is logged by the except clause around both calls
AfterStopCaptureAlways(raises) == "stopAsr"
AfterStopCapture(raises) == IF raises THEN "done" ELSE "stopAsr"

\* run(), finally: self.audio_capture.stop_capture()
AwStopCapture ==
    /\ awRun = "stopCapture"
    /\ awAsked' = awAsked \cup {"capture"}
    /\ \E raises \in BOOLEAN : awRun' = AfterStopCapture(raises)
    /\ UNCHANGED <<is_running, awStop, awStarted, awCb>>
    /\ UNCHANGED <<captureVars, trackVars, asrVars, devVars, perfVars, ltVars, ttsVars,
                   rsVars, lockVars>>

\* run(), finally: self.asr_engine.stop_recognition(); run() ends
AwStopAsr ==
    /\ awRun = "stopAsr"
    /\ awAsked' = awAsked \cup {"asr"}
    /\ awRun' = "done"
    /\ UNCHANGED <<is_running, awStop, awStarted, awCb>>
    /\ UNCHANGED <<captureVars, trackVars, asrVars, devVars, perfVars, ltVars, ttsVars,
                   rsVars, lockVars>>

\* stop(): self.is_running = False.  MainWindow calls stop() on a worker it has
\* started, and drops the worker afterwards.
AwStopCall ==
    /\ awStop = "idle"
    /\ awRun # "none"
    /\ is_running' = FALSE
    /\ awStop' = "wait"
    /\ UNCHANGED <<awRun, awStarted, awAsked, awCb>>
    /\ UNCHANGED <<captureVars, trackVars, asrVars, devVars, perfVars, ltVars, ttsVars,
                   rsVars, lockVars>>

\* self.wait(3000) returns: run() has ended, or 3 s have elapsed.  3 s elapse only
\* while run() is inside a call into one of the parts or in its loop with the flag
\* set; a started thread enters run(), and a loop that finds the flag clear leaves,
\* within that time.
WaitReturns ==
    \/ awRun = "done"
    \/ awRun \in {"startCapture", "startAsr", "stopCapture", "stopAsr"}
    \/ awRun = "loop" /\ is_running

\* stop(): self.wait(3000) returns and stop() with it
AwStopWait ==
    /\ awStop = "wait"
    /\ WaitReturns
    /\ awStop' = "returned"
    /\ UNCHANGED <<is_running, awRun, awStarted, awAsked, awCb>>
    /\ UNCHANGED <<captureVars, trackVars, asrVars, devVars, perfVars, ltVars, ttsVars,
                   rsVars, lockVars>>

\* audio_callback / asr_callback: "if self.is_running" is read as true.  A part
\* calls back from the moment its start call is made until its stop call is made.
AwCallbackCheck(c) ==
    /\ awCb[c] = "idle"
    /\ \/ c \in awStarted
       \/ c = "capture" /\ awRun = "startCapture"
       \/ c = "asr" /\ awRun = "startAsr"
    /\ c \notin awAsked
    /\ is_running
    /\ awCb' = [awCb EXCEPT ![c] = "checked"]
    /\ UNCHANGED <<is_running, awRun, awStop, awStarted, awAsked>>
    /\ UNCHANGED <<captureVars, trackVars, asrVars, devVars, perfVars, ltVars, ttsVars,
                   rsVars, lockVars>>

\* audio_callback / asr_callback: self.audio_ready.emit / self.caption_ready.emit
AwEmit(c) ==
    /\ awCb[c] = "checked"
    /\ awCb' = [awCb EXCEPT ![c] = "idle"]
    /\ UNCHANGED <<is_running, awRun, awStop, awStarted, awAsked>>
    /\ UNCHANGED <<captureVars, trackVars, asrVars, devVars, perfVars, ltVars, ttsVars,
                   rsVars, lockVars>>

AwNext ==
    \/ AwStart
    \/ AwRunBegin
    \/ AwStartCapture
    \/ AwStartAsr
    \/ AwLoop
    \/ AwStopCapture
    \/ AwStopAsr
    \/ AwStopCall
    \/ AwStopWait
    \/ \E c \in Parts : AwCallbackCheck(c) \/ AwEmit(c)

AwSpec == Init /\ [][AwNext]_vars

\* Scheduling: the worker thread and the caller of stop() keep running; the calls
\* into the two parts return or raise
AwLiveSpec ==
    /\ AwSpec
    /\ WF_vars(AwRunBegin) /\ WF_vars(AwStartCapture) /\ WF_vars(AwStartAsr)
    /\ WF_vars(AwLoop) /\ WF_vars(AwStopCapture) /\ WF_vars(AwStopAsr)
    /\ WF_vars(AwStopWait)

\* ------------------------------------------------------------------ claims
ConsumerInvoked(t) == disp[t].pc = "get" /\ disp'[t].pc = "consume"
ConsumerEnded(t) == disp[t].pc = "consume" /\ disp'[t].pc # "consume"
ConsumerReturned(t) == disp[t].pc = "consume" /\ disp'[t].pc = "check"
AliveDispatchers == {t \in Sessions : Alive(t)}

\* C1: once stop() has returned for a session, the consumer is not invoked with a
\* frame of that session and no consumer invocation for a frame of that session
\* returns (produces its result).
C1_NoConsumerActivityAfterStop ==
    [][\A t \in Sessions :
        /\ ConsumerInvoked(t) => FrameSession(disp'[t].frame) > stopped
        /\ ConsumerReturned(t) => FrameSession(disp[t].frame) > stopped]_vars

\* C2: the capture queue never holds more than its capacity N frames.
C2_QueueWithinCapacity == Len(queue) <= CapacityN

\* C3: a frame that arrives while the track queue is full is discarded; the queued
\* frames and their order stay as they were.
C3_DropNewest ==
    [][(trackScheduled' # trackScheduled /\ trackScheduled # <<>>
            /\ trackScheduled' = Tail(trackScheduled) /\ TrackFull(trackQueue))
        => trackQueue' = trackQueue]_vars

C3_FrameDroppedOnFullQueue ==
    /\ trackDropped > 0
    /\ Len(trackQueue) = TrackMaxsize
    /\ Head(trackQueue) = 1

\* C4: no producer is ever left waiting inside put(): no capture callback and no
\* soundcard worker is parked, whatever the queue holds and whatever the
\* dispatcher is doing.
C4_ProducerNeverWaits ==
    /\ blockedPut = NoFrame
    /\ \A w \in Sessions : worker[w] # "blocked"

C4_PushedWhileConsumerBusy ==
    \E t \in Sessions :
        /\ disp[t].pc = "consume"
        /\ queue # <<>>
        /\ FrameId(queue[Len(queue)]) > FrameId(disp[t].frame)

\* C5: of two frames handed to the consumer, the processing of the one captured
\* first ends first.
C5_ProcessedInCaptureOrder ==
    [][\A t, u \in Sessions :
        (ConsumerEnded(t) /\ u # t /\ disp[u].pc = "consume")
            => FrameId(disp[u].frame) > FrameId(disp[t].frame)]_vars

\* C6: a consumer invocation that ends, by returning or by raising, leaves the
\* dispatcher in its loop, from where it goes on to the next poll while the flag
\* is set; a dispatcher ends only at its loop test and only with the flag clear.
C6_ExceptionKeepsDispatcher ==
    [][\A t \in Sessions :
        /\ ConsumerEnded(t) => disp'[t].pc \in {"check", "caught"}
        /\ (disp[t].pc = "caught" /\ disp'[t].pc # "caught")
              => disp'[t].pc = IF running THEN "get" ELSE "none"
        /\ (Alive(t) /\ disp'[t].pc = "none")
              => ~running /\ disp[t].pc \in {"check", "caught"}]_vars

C6_CaughtWithFramesWaiting ==
    \E t \in Sessions : disp[t].pc = "caught" /\ running /\ queue # <<>>

\* C7: a stop() called in the Idle state runs to its return without raising,
\* keeps stream, flag and dispatcher handle as they are, ends no consumer
\* invocation itself and returns with the queue empty; and every stop() that
\* returns leaves the Idle state behind, so a second stop() is such a call.
C7_StopIdempotent ==
    [][/\ (stopPc = "idle" /\ stopPc' # "idle" /\ Idle)
            => (stream' = "None" /\ ~running' /\ consumer_thread' = 0 /\ queue' = <<>>)
       /\ (stopPc # "idle" /\ stopFromIdle)
            => /\ stream' = "None" /\ ~running' /\ consumer_thread' = 0
               /\ stopPc' = "idle" => (stopPc = "join" /\ queue' = <<>>)
       /\ stopPc' # stopPc => disp' = disp
       /\ (stopPc = "join" /\ stopPc' = "idle") => Idle']_vars

C7_SecondStopFromIdle ==
    /\ stopFromIdle
    /\ stopPc = "join"
    /\ session > 0
    /\ stopped = session

\* C8: at most one dispatcher thread is running at any time.
C8_AtMostOneDispatcher == Cardinality(AliveDispatchers) <= 1

\* C9: a dispatcher that was running when stop() cleared the flag ends at its
\* next loop test, so it polls the queue at most once more.
C9_ClearedDispatcherExits ==
    [][\A t \in cleared :
        (disp[t].pc \in {"check", "caught"} /\ disp'[t].pc # disp[t].pc)
            => disp'[t].pc = "none"]_vars

\* C10: every stop() that has been called finishes, also when the consumer never
\* returns; when it returns, no stream and no dispatcher handle is held and the
\* queue is empty.
C10_StopAlwaysFinishes ==
    /\ (stopPc # "idle") ~> (stopPc = "idle")
    /\ [][(stopPc = "join" /\ stopPc' = "idle")
            => (stream' = "None" /\ consumer_thread' = 0 /\ queue' = <<>>)]_vars

C10_StopReturnedConsumerStillBusy ==
    /\ stopPc = "idle"
    /\ session > 0
    /\ stopped = session
    /\ consumer_thread = 0
    /\ \E t \in Sessions : disp[t].pc = "consume" /\ FrameSession(disp[t].frame) <= stopped

\* ------------------------------------------------- claims on the transcribers
EngCalled == engCalls' = engCalls + 1
LastOf(q) == q[Len(q)]

\* C11: a call to accept_pcm returns at most one result, and a call in which
\* the loop produces a new partial and the endpoint carries text returns the final.
C11_FinalTakesPrecedence ==
    [][EngCalled =>
        /\ Len(engOut') <= Len(engOut) + 1
        /\ (engCall'.partial # <<>> /\ engCall'.endpoint /\ engCall'.final_text # <<>>)
              => /\ Len(engOut') = Len(engOut) + 1
                 /\ LastOf(engOut').is_final
                 /\ LastOf(engOut').text = engCall'.final_text]_vars

C11_PartialAndEndpointInOneCall ==
    /\ engCall.partial # <<>>
    /\ engCall.endpoint
    /\ engCall.final_text # <<>>
    /\ LastOf(engOut).is_final

\* the results of one utterance are partials, then at most one final, then nothing
PartialsThenFinal(out) ==
    \A i, j \in DOMAIN out : (i < j /\ out[i].utt = out[j].utt) => ~out[i].is_final

\* C12: of the results returned for one utterance none follows the utterance's
\* final, so the final is returned once and no partial comes after it; an
\* endpoint that carries text, and a message flagged final that carries text,
\* yields a final.  Stated of both transcribers.
C12_PartialsThenOneFinal ==
    /\ PartialsThenFinal(engOut)
    /\ (engCall.endpoint /\ engCall.final_text # <<>>)
          => (engOut # <<>> /\ LastOf(engOut).is_final /\ LastOf(engOut).utt = engUtt - 1)
    /\ PartialsThenFinal(dgReturned)
    /\ \A i \in DOMAIN dgReturned : dgReturned[i].flag => dgReturned[i].is_final

\* C13: the calls of HelloScript on a new engine return exactly partial "hel",
\* partial "hello", final "hello world"; a call that returned a final leaves the
\* cached partial empty, and the next call, when it decodes one hypothesis with
\* text and meets no endpoint, returns that text as a partial, also when the
\* text was returned before.
C13_HelloScriptThenReset ==
    [][EngCalled =>
        /\ engScript' = Len(HelloScript)
              => engOut' = << [text |-> Hel, is_final |-> FALSE, utt |-> 1],
                              [text |-> Hello, is_final |-> FALSE, utt |-> 1],
                              [text |-> HelloWorld, is_final |-> TRUE, utt |-> 1] >>
        /\ (engOut' # engOut /\ LastOf(engOut').is_final) => engLastPartial' = <<>>
        /\ (/\ engCall.endpoint /\ engCall.final_text # <<>>
            /\ engCall'.decodes = 1 /\ Strip(engHyp') # <<>>
            /\ ~engCall'.endpoint)
              => engOut' = Append(engOut, [text |-> Strip(engHyp'),
                                           is_final |-> FALSE, utt |-> engUtt])]_vars

C13_HelloScriptFed ==
    /\ engScript = Len(HelloScript)
    /\ engCalls = Len(HelloScript)
    /\ engCall.partial # <<>>
    /\ engLastPartial = <<>>
    /\ engHyp = <<>>

\* C14: two partials returned one after the other for the same utterance never
\* carry the same text.
C14_ConsecutivePartialsDiffer ==
    \A i \in DOMAIN engOut :
        (/\ i > 1
         /\ ~engOut[i].is_final /\ ~engOut[i - 1].is_final
         /\ engOut[i].utt = engOut[i - 1].utt)
            => engOut[i].text # engOut[i - 1].text

\* the results the listener has appended so far, oldest first
DgAppended == dgReturned \o dgQueue

\* C15: a result of the remote transcriber is final exactly when the message it
\* was made from carries a true finality flag.
C15_FinalIffFlag ==
    \A i \in DOMAIN DgAppended : DgAppended[i].is_final = DgAppended[i].flag

\* C16: accept_pcm returns a buffered result only at its pop, one per call; the
\* results returned so far are the first results appended, in appending order,
\* each once.
C16_OnePerCallInOrder ==
    [][/\ dgReturned' # dgReturned
            => /\ dgPc = "pop" /\ dgPc' = "idle"
               /\ Len(dgReturned') = Len(dgReturned) + 1
       /\ \A i \in DOMAIN dgReturned' : dgReturned'[i].id = i]_vars

C16_AppendedBetweenSendAndPop ==
    /\ dgPc = "pop"
    /\ Len(dgReturned) >= 1
    /\ Len(dgQueue) >= 2

\* C17: an accept_pcm call whose send fails ends at once, returns no result and
\* leaves the buffer as it is; a result is returned only by a call whose send
\* went through, and such a call returns the oldest buffered result.
C17_SendFailureSwallowed ==
    [][/\ (dgPc = "idle" /\ dgCall' = "sendFailed" /\ (dgCall # "sendFailed" \/ dgPc' = "pop"))
            => (dgPc' = "idle" /\ dgQueue' = dgQueue /\ dgReturned' = dgReturned)
       /\ dgReturned' # dgReturned => dgCall = "sent"
       /\ (dgPc = "pop" /\ dgPc' = "idle" /\ dgQueue # <<>>)
            => dgReturned' = Append(dgReturned, Head(dgQueue))]_vars

C17_SendFailedWithResultsBuffered ==
    /\ dgCall = "sendFailed"
    /\ dgPc = "idle"
    /\ dgWs = "open"
    /\ dgQueue # <<>>
    /\ dgReturned # <<>>

\* what close() could change
DgObject == <<dgLastPartial, dgQueue, dgWs, dgListener, dgReturned, dgCall>>

\* C18: every close() returns, also when the listener thread never ends; a
\* close() after the first changes nothing, and no close() changes anything
\* while it waits for the listener.
C18_CloseIdempotentAndBounded ==
    /\ (dgPc = "join") ~> (dgPc = "idle")
    /\ [][/\ (dgCloses' = dgCloses + 1 /\ dgCloses >= 1) => DgObject' = DgObject
          /\ (dgPc = "join" /\ dgPc' = "idle") => DgObject' = DgObject]_vars

C18_SecondCloseReturnedListenerRunning ==
    /\ dgCloses = MaxCloses
    /\ dgPc = "idle"
    /\ dgListener = "running"
    /\ dgQueue # <<>>

\* the environment does not let ASRReceiver() construct the backend it goes for:
\* the remote one without a key, the local one without sherpa-onnx or model files
CannotConstruct(env) ==
    \/ (env.backend = "deepgram" \/ (env.backend = "auto" /\ env.key = "set"))
          /\ env.key # "set"
    \/ ~(env.backend = "deepgram" \/ (env.backend = "auto" /\ env.key = "set"))
          /\ (~env.sherpa \/ ~env.files)

\* C19: a construction that cannot succeed raises to the caller, and a
\* construction that raises has created no decoder stream, no connection and no
\* listener thread.
C19_FailFastConstruction ==
    asrEnv # NoEnv =>
        /\ CannotConstruct(asrEnv) => (asrError # "none" /\ asrBackend = "none")
        /\ asrError # "none" => asrCreated \cap {"stream", "connection", "thread"} = {}

C19_ModelFilesMissing ==
    /\ asrEnv # NoEnv
    /\ asrEnv.sherpa /\ ~asrEnv.files /\ asrEnv.recognizer
    /\ asrError = "FileNotFoundError"
    /\ asrCreated = {}

\* C20: a start() that is called with an explicit device set, enumerable and
\* possible to open, opens the capture on that device, whatever the source mode.
C20_ExplicitDeviceWins ==
    (devOpened.path \notin {"none", "failed"} /\ devOpened.explicit # "None"
        /\ devOpened.enumerable /\ devOpened.openable)
      => devOpened.device = devOpened.explicit

\* C27: is_active() is true exactly while a capture is open and running: every
\* successful start() (one that returns with a started stream or with the
\* soundcard loopback worker running) makes it true, whichever path start() took,
\* only a successful start() makes it true, and only a stop() call makes it false.
C27_ActiveWhileCapturing ==
    [][LET StartSucceeded ==
               /\ session' = session + 1
               /\ stream' = "started" \/ worker'[session'] = "init"
       IN /\ StartSucceeded => IsActive'
          /\ (~IsActive /\ IsActive') => StartSucceeded
          /\ (IsActive /\ ~IsActive') => (stopPc = "idle" /\ stopPc' = "stream")]_vars

\* C30: on every path stop() ends (it returns after the join, or the error of the
\* stream leaves it) with the stream released, the dispatcher joined and its
\* handle dropped, and the queue cleared.
C30_StopReleasesOnEveryPath ==
    [][(stopPc # "idle" /\ stopPc' = "idle")
        => (stream' = "None" /\ consumer_thread' = 0 /\ queue' = <<>>)]_vars

\* the latencies the window has to hold: the latest HistorySize of those recorded
Retained ==
    LET n == Len(perfRecorded)
    IN IF n <= HistorySize THEN perfRecorded
       ELSE SubSeq(perfRecorded, n - HistorySize + 1, n)

\* C25: the latency window never holds more samples than its capacity, and
\* recording into a full window evicts exactly the oldest sample and keeps the
\* others in their recording order: the window is always the latest samples
\* recorded, oldest first.
C25_WindowBoundedOldestEvicted ==
    /\ Len(latency_history) <= HistorySize
    /\ latency_history = Retained

C25_RecordedIntoFullWindow ==
    /\ Len(perfRecorded) = HistorySize + 1
    /\ Len(latency_history) = HistorySize
    /\ perfRecorded[1] # perfRecorded[2]
    /\ latency_history[1] = perfRecorded[2]

\* C26: the reported average latency is the sum of the retained samples divided
\* by their count (20 after recording 10, 20, 30), is 0 when nothing has been
\* recorded, and no evicted sample influences it.
C26_AverageOfRetained ==
    perfStats # NoStats =>
        LET avg == perfStats.avg_latency
        IN /\ avg[2] > 0
           /\ perfRecorded = <<>> => avg[1] = 0
           /\ perfRecorded # <<>> => avg[1] * Len(Retained) = Sum(Retained) * avg[2]
           /\ perfRecorded = <<10, 20, 30>> => avg[1] = 20 * avg[2]

C26_AverageAfterEviction ==
    /\ perfStats # NoStats
    /\ Len(perfRecorded) > HistorySize
    /\ perfRecorded[1] = 30
    /\ perfStats.avg_latency[1] = 10 * perfStats.avg_latency[2]

\* C28: end_timing on an id returned by start_timing and not yet ended returns a
\* duration and records exactly one measurement (the newest of the window, the
\* earlier ones keeping their order); end_timing on an unknown or already-ended
\* id returns None and leaves the measurements unchanged.
C28_EndTimingOncePerId ==
    ltCall # NoEnd =>
        IF ltCall.pending
        THEN /\ Len(ltCall.ret) = 1
             /\ measurements # <<>>
             /\ measurements[Len(measurements)] = ltCall.ret[1]
             /\ LET kept == Len(measurements) - 1
                    had == Len(ltCall.before)
                IN /\ kept = (IF had < WindowSize THEN had ELSE WindowSize - 1)
                   /\ SubSeq(measurements, 1, kept)
                        = SubSeq(ltCall.before, had - kept + 1, had)
        ELSE /\ ltCall.ret = <<>>
             /\ measurements = ltCall.before

C28_EndedIdEndedAgain ==
    /\ ltCall # NoEnd
    /\ ~ltCall.pending
    /\ ltCall.ret = <<>>
    /\ measurements # <<>>
    /\ ltCall.id[2] < ltClock

\* C29: every on_speaking(True) notification is followed by an on_speaking(False)
\* notification before the next queued text is taken, also when speaking raises:
\* no text is taken from the queue while a True notification is outstanding.
C29_FalseBeforeNextText ==
    [][\A t \in 1..MaxTtsStarts :
        (ttsThread[t].pc = "get" /\ ttsThread'[t].pc = "taken")
            => \A u \in 1..MaxTtsStarts : ~ttsThread[u].gated]_vars

\* C21: with no native loopback API (neither the WASAPI host API nor the
\* soundcard loopback) and no explicit device, a start() in internal mode over a
\* device list that contains an input-capable entry named "Stereo Mix" opens the
\* Stereo-Mix-like input, and the index chosen for it is that of the first
\* enumerated input-capable device whose name matches a system-capture pattern.
C21_StereoMixSelected ==
    LET devices == devCall.devices
        matching == {i \in DOMAIN devices :
                        /\ devices[i].in_ch > 0
                        /\ devices[i].name \in {"Stereo Mix", "Wave Out Mix"}}
    IN (/\ devOpened.path \notin {"none", "failed"}
        /\ devOpened.explicit = "None"
        /\ ~devCall.wasapi /\ ~devCall.soundcard
        /\ devCall.mode = "internal"
        /\ \E i \in DOMAIN devices :
              devices[i] = [name |-> "Stereo Mix", in_ch |-> 2])
       => /\ devOpened.device = "stereo_mix"
          /\ devCall.found \in matching
          /\ \A j \in matching : devCall.found <= j

C21_StereoMixSecondInList ==
    /\ devOpened.path = "ladder"
    /\ devOpened.explicit = "None"
    /\ ~devCall.wasapi /\ ~devCall.soundcard
    /\ devCall.mode = "internal"
    /\ Len(devCall.devices) = 2
    /\ devCall.devices[1] = [name |-> "Stereo Mix", in_ch |-> 0]
    /\ devCall.devices[2] = [name |-> "Stereo Mix", in_ch |-> 2]
    /\ devCall.found = 2

\* C22: when opening the stream fails, start() retries with progressively simpler
\* channel counts (no stereo attempt after a mono attempt), tries each channel
\* count at most once, and fails only after every candidate has failed.
C22_LadderProgressivelySimpler ==
    LET tried == devCall.tried
    IN /\ \A i, j \in DOMAIN tried : i < j => ~(tried[i] = 1 /\ tried[j] = 2)
       /\ \A i, j \in DOMAIN tried : i < j => tried[i] # tried[j]
       /\ devOpened.path = "failed" => {tried[i] : i \in DOMAIN tried} = {1, 2}

\* ------------------------------------------------- claims on the resampling
\* C23: the resampling code runs in accept_pcm only when the frame's sample rate
\* differs from the backend rate; with equal rates the samples reach the decoder
\* unchanged, and _resample_linear(x, r, r) = x for the chunk x and every rate r.
C23_ResampleOnlyWhenRatesDiffer ==
    rsCall # NoFeed =>
        /\ rsCall.resampled <=> rsCall.sample_rate # rsSampleRate
        /\ rsCall.sample_rate = rsSampleRate =>
                ~rsCall.dropped /\ rsCall.fed = rsCall.pcm
        /\ \A r \in Rates : ResampleLinear(rsCall.pcm, r, r) = rsCall.pcm

\* a one-sample stereo chunk at the backend's rate reached the decoder
C23_EqualRatesShortChunkFed ==
    /\ rsCall # NoFeed
    /\ rsCall.sample_rate = rsSampleRate
    /\ rsCall.ndim = 2
    /\ Len(rsCall.pcm) = 1
    /\ rsCall.fed = rsCall.pcm

\* C24: for differing rates the resampled output has floor(n * dst_rate / src_rate)
\* samples when that number is at least 2 and is empty otherwise, for every input
\* length n.
C24_OutputLengthIsFloor ==
    (rsCall # NoFeed /\ rsCall.sample_rate # rsSampleRate) =>
        Len(rsCall.fed) =
            IF DstLenExact(Len(rsCall.pcm), rsCall.sample_rate, rsSampleRate) >= 2
            THEN DstLenExact(Len(rsCall.pcm), rsCall.sample_rate, rsSampleRate)
            ELSE 0

\* ------------------------------------------ claims on the capture's sessions
\* C31: at most one capture source, a started sounddevice stream or a soundcard
\* loopback worker with its recorder open, feeds the queue at any time.
C31_AtMostOneSource ==
    Cardinality({w \in Sessions : worker[w] \in {"check", "record", "blocked"}})
        + (IF stream = "started" THEN 1 ELSE 0) <= 1

\* C33: once stop() has returned and until the next start(), the capture queue
\* is empty.
C33_QueueEmptyAfterStop ==
    (session > 0 /\ stopped = session /\ stopPc = "idle") => queue = <<>>

\* C34: a start() that opens no stream and no loopback leaves the capture Idle:
\* running flag clear, no stream held, no dispatcher thread started.
C34_FailedStartLeavesIdle ==
    [][(session' = session + 1 /\ stream' = "None" /\ worker' = worker)
        => (~running' /\ disp' = disp /\ consumer_thread' = consumer_thread)]_vars

\* C36: whenever accept_pcm has reset the decoder at an endpoint, the cached last
\* partial is empty, also when the final text was empty and no final was returned.
C36_EndpointResetsCachedPartial ==
    engCall.endpoint => engLastPartial = <<>>

\* C35: every frame that is in the queue while the capture is running (flag set,
\* stream started) and a consumer is registered is eventually taken by a dispatcher for the consumer or
\* discarded by stop(), under fair scheduling and a consumer that returns,
\* whatever the order of set_consumer() and start().
C35_FramesEventuallyLeaveQueue ==
    \A i \in 1..MaxFrames, s \in Sessions :
        (/\ running /\ stream = "started" /\ consumer
         /\ \E k \in 1..Len(queue) : queue[k] = <<i, s>>)
            ~> ~(\E k \in 1..Len(queue) : queue[k] = <<i, s>>)

\* ----------------------------------------------- claims on the result lock
\* C32: the result-buffer lock is held only while one result is appended or
\* popped, never during the network send; no thread holds two locks (self._lock is
\* the only one), and a thread waiting for the lock waits for a thread that does
\* not wait itself, so the listener and the caller of accept_pcm cannot deadlock.
C32_LockOnlyAroundBuffer ==
    /\ lkOwner = "listener" => lkPc.listener \in {"append", "release"}
    /\ lkOwner = "caller" => lkPc.caller \in {"pop", "release"}
    /\ lkPc.caller = "send" => lkOwner # "caller"
    /\ \A t \in {"listener", "caller"} :
        lkPc[t] = "wait" /\ lkOwner # "none" =>
            lkOwner # t /\ lkPc[lkOwner] \in {"append", "pop", "release"}

\* the caller is inside the send while the listener appends under the lock, and
\* the buffer holds a result
C32_SendWhileListenerAppends ==
    /\ lkPc.caller = "send"
    /\ lkOwner = "listener"
    /\ lkPc.listener = "release"
    /\ lkBuf > 1

\* ------------------------------------------------- claims on the AudioWorker
\* C37: after AudioWorker.stop() has been called, run() eventually leaves its loop
\* and finishes its cleanup, for every interleaving of stop() with the beginning
\* of run().
C37_StopEndsRun == (awStop # "idle") ~> (awRun = "done")

\* C38: no audio_ready and no caption_ready signal is emitted after
\* AudioWorker.stop() has returned.
C38_NoSignalAfterStop ==
    [][\A c \in Parts :
        (awCb[c] = "checked" /\ awCb'[c] = "idle") => awStop # "returned"]_vars

\* C39: whenever run() has ended, both the audio capture and the recognition
\* engine have been asked to stop.
C39_BothAskedToStop == awRun = "done" => awAsked = Parts

====
